---- MODULE Spec2Model ----
(***************************************************************************)
(* Bot lifecycle and provisioning subsystem.                               *)
(*                                                                         *)
(* The server is a single process that handles many requests concurrently. *)
(* Every request handler is an async function: it runs until it issues a   *)
(* database query or an external API call (an await), is suspended, and    *)
(* resumes when the call has taken effect.  One step of the model is one   *)
(* such call taking effect, followed by the handler's local computation up *)
(* to the issue of its next call.  Handlers of different requests          *)
(* interleave at these points and nowhere else.                            *)
(*                                                                         *)
(* Two consecutive reads of the same row (Bot.findById followed by         *)
(* Bot.findByIdWithTokens) are one step.  Credentials stored by            *)
(* Bot.create are ciphertext of the configured key, so the decryption in   *)
(* findByIdWithTokens succeeds.  Columns of the bots table that no         *)
(* property reads (name, model, prompt, port, counters, webhook_url) are   *)
(* not part of the state.                                                  *)
(***************************************************************************)
EXTENDS Integers, FiniteSets, Sequences, TLC

\* ------------------------------------------------------------------ bounds
MaxBotIds == 2          \* ids the bots table hands out
MaxSvc == 2             \* services the remote orchestrator creates
MaxHead == 1            \* deployment-status answers chosen one by one
MaxTurns == 12          \* turns stored before the handler is given no more texts
MaxLen == 2             \* characters of a plaintext given to the vault
MaxRows == 1            \* rows of the bots table with credential columns
MaxCap == 2             \* the largest maxRequests given to webhookRateLimit
MaxTime == 5            \* the clock stops after MaxTime units
MaxForward == 101       \* requests that reach the global limiter in one window

\* ------------------------------------------------------- program constants
FreeMaxBots == 1
ProMaxBots == 3
MaxAttempts == 30
TurnCap == 10
DefaultMaxRequests == 100
FreeLimit == 100
ProLimit == 1000
BusinessLimit == 5000
windowMs == 60000

BotIds == 1..MaxBotIds
SvcIds == 1..MaxSvc
\* two requests are handled at the same time: every race in the handlers is
\* one between two requests
Slots == {1, 2}
Users == 1..2
\* the users that create bots; the other user only sends requests
Creators == {1}
Null == 0

\* PLANS[plan].maxBots copied to users.max_bots by User.create and to
\* req.user.maxBots by authenticate: user 1 is on the free plan, user 2 on pro
maxBots == [u \in Users |-> IF u = 1 THEN FreeMaxBots ELSE ProMaxBots]

BOT_STATUS == {"running", "stopped", "error", "sleeping", "deploying"}

\* the value the bots.status column takes on INSERT (Bot.create names no status)
DefaultStatus == "deploying"

\* the provisioner variants behind the controller's `provisioner` binding
Variants == {"mock", "graphql", "rest", "runner"}

NoBot == [user_id |-> 0, status |-> "none", railway_service_id |-> Null]

VARIABLES
  provisioner,   \* the active backend variant
  publicDomain,  \* process.env.RAILWAY_PUBLIC_DOMAIN is set
  bots,          \* the bots table: id -> row, or NoBot
  nextId,        \* the next id the bots table hands out
  services,      \* services that exist on the remote orchestrator
  nextSvc,       \* the next service id the orchestrator hands out
  runningBots,   \* SimpleBotRunner.runningBots (keys)
  conversations, \* the runner's conversations map: bot -> turns stored
  vault,         \* a use of the Credential Vault: encrypt, then decrypt
  table,         \* the bots table with its credential columns: id -> row
  handed,        \* what the last Bot Record Store operation returned
  requestStore,  \* webhookRateLimit's requestStore: bot -> window, or NoWindow
  now,           \* Date.now(), in units of UnitMs
  maxRequests,   \* the maxRequests the caller of webhookRateLimit passes
  granted,       \* bot -> calls webhookRateLimit allowed in the bot's window
  verdict,       \* what the last webhookRateLimit call returned
  kept,          \* requestStore as the same calls leave it without any purge
  keptVerdict,   \* what the last call returned against kept
  forwarded,     \* bot -> webhook requests the route gave to the handler
  hits,          \* the global limiter's store: key -> requests counted
  lastApi,       \* the last API request as the global limiter saw it
  waited,        \* a run of waitForDeployment: its inputs and how it ended
  tasks          \* the requests in progress, one per slot

vars == <<provisioner, publicDomain, bots, nextId, services, nextSvc,
          runningBots, conversations, vault, table, handed, requestStore,
          now, maxRequests, granted, verdict, kept, keptVerdict, forwarded,
          hits, lastApi,
          waited, tasks>>

\* the state of the request handlers
server == <<provisioner, publicDomain, bots, nextId, services, nextSvc,
            runningBots, conversations, tasks>>

\* the Bot Record Store with the credential columns
store == <<table, handed>>

\* the per-bot webhook limiter and its clock
throttle == <<requestStore, now, maxRequests, granted, verdict, kept,
              keptVerdict>>

\* the backend operations run on their own
bench == <<waited>>

\* the state the request handlers of this model do not touch
apart == <<vault, store, throttle, forwarded, hits, lastApi, bench>>

\* the state the Credential Vault, the Bot Record Store, the webhook limiter
\* and the dispatch of the webhook route do not touch
besideVault == <<server, store, throttle, forwarded, hits, lastApi, bench>>
besideStore == <<server, vault, throttle, forwarded, hits, lastApi, bench>>
besideThrottle == <<server, vault, store, forwarded, hits, lastApi, bench>>
besideDispatch == <<server, vault, store, throttle, lastApi, bench>>
besideLimiter == <<server, vault, store, throttle, forwarded, bench>>
besideBench == <<server, vault, store, throttle, forwarded, hits, lastApi>>

\* A status query: seen is the status of the row that getBotStatus read
\* ("null" when there was no row), reg whether the runner's registry held the
\* bot, remote what the call to the orchestrator did ("none": no call), and
\* status, running, message are fields of the answer (message "none": the
\* answer has no message field)
NoQuery ==
  [seen |-> "none", reg |-> FALSE, remote |-> "none", status |-> "none",
   running |-> FALSE, message |-> "none"]

\* An inbound webhook request: payload is the shape of the update in its
\* body, found whether the runner's registry held the bot, threw whether the
\* runtime handler threw into the route, logged whether the route logged
\* that, and sent the number of history turns in the chat-completion call
\* the handler made (0: no call)
NoHook ==
  [payload |-> "none", found |-> FALSE, threw |-> FALSE, logged |-> FALSE,
   sent |-> 0]

\* A request in progress.  kind and pc give the handler and its position;
\* user, bot are req.user.id and req.params.id; resp is the HTTP status sent
\* (0: none yet); snapSvc is the railway_service_id of the `bot` that
\* deleteBot read at entry; needsRestart is updateBot's flag; svc is the
\* service a backend operation works on.  The remaining fields only record
\* what happened: how the backend start and stop ended ("ok", "fail"), how
\* the readiness wait ended ("success", "timeout"), whether one
\* of its polls saw FAILED, whether it polled again after that (both kept
\* until the step after the wait), whether provisionBot created a service
\* while the bot had a handle (kept until provisionBot ends), whether
\* setServiceVariables set every variable (kept until the deployment is
\* triggered or refused), what the last
\* webhook call of the request did to the bot's registration on the
\* messaging platform ("set", "not_set", "deleted", "not_deleted"), and
\* whether the handler issued a deleteService call.  q belongs to a status
\* query, w to an inbound webhook request.
Idle ==
  [kind |-> "idle", pc |-> "idle", user |-> 0, bot |-> 0, resp |-> 0,
   snapSvc |-> Null, needsRestart |-> FALSE, svc |-> Null,
   startOut |-> "none", stopOut |-> "none",
   waitOut |-> "none", sawFailed |-> FALSE, polledAfterFailed |-> FALSE,
   dup |-> FALSE, varsOk |-> TRUE, hook |-> "none", tore |-> FALSE,
   q |-> NoQuery, w |-> NoHook]

\* the vault before it is used: text is the plaintext, iv the random IV of
\* the encrypt call, blob what encrypt returned, given the blob handed to
\* decrypt and out what decrypt did
NoVault ==
  [pc |-> "unused", text |-> <<>>, iv |-> 0, blob |-> <<>>, given |-> <<>>,
   out |-> [ok |-> FALSE, text |-> <<>>]]

\* the server after start-up, before any request
InitServer ==
  /\ provisioner \in Variants
  /\ publicDomain \in (IF provisioner = "runner" THEN BOOLEAN ELSE {TRUE})
  /\ bots = [b \in BotIds |-> NoBot]
  /\ nextId = 1
  /\ services = {}
  /\ nextSvc = 1
  /\ runningBots = {}
  /\ conversations = [b \in BotIds |-> 0]
  /\ tasks = [t \in Slots |-> Idle]

\* the ids of the rows of the bots table with credential columns
StoreIds == 1..MaxRows

\* no row
NoRow == [id |-> 0]

\* no store operation yet
NotHanded == [op |-> "none", rows |-> {}]

\* no entry in requestStore
NoWindow == [count |-> 0, resetTime |-> 0]

\* no webhookRateLimit call yet; retryAfter -1: the result has no retryAfter
NoVerdict == [bot |-> 0, allowed |-> TRUE, retryAfter |-> -1]

\* the network origins requests come from
Origins == 1..2

\* the keys of the global limiter's store: what keyGenerator returns
Keys == [kind : {"user"}, id : Users] \cup [kind : {"ip"}, id : Origins]

\* no API request yet
NoApi == [user |-> Null, ip |-> 0, path |-> "none", key |-> [kind |-> "none", id |-> 0],
          max |-> 0, status |-> 0]

\* no run of waitForDeployment yet
NoWait ==
  [ps |-> [head |-> <<>>, rest |-> "none"], maxAttempts |-> 0, out |-> "none",
   polls |-> 0]

\* the vault, the store and the global limiter before their first use
InitKeeping ==
  /\ vault = NoVault
  /\ table = [b \in StoreIds |-> NoRow]
  /\ handed = NotHanded
  /\ hits = [k \in Keys |-> 0]
  /\ lastApi = NoApi
  /\ waited = NoWait

\* the webhook limiter before its first call, its caller passing max
InitThrottle(max) ==
  /\ requestStore = [b \in BotIds |-> NoWindow]
  /\ now = 0
  /\ maxRequests = max
  /\ granted = [b \in BotIds |-> 0]
  /\ verdict = NoVerdict
  /\ kept = [b \in BotIds |-> NoWindow]
  /\ keptVerdict = NoVerdict
  /\ forwarded = [b \in BotIds |-> 0]

Init ==
  /\ InitServer
  /\ InitKeeping
  /\ InitThrottle(DefaultMaxRequests)

\* ----------------------------------------------------------- Bot Record Store
\* Bot.findById: the row, or null
findById(b) == bots[b]

Exists(b) == bots[b] # NoBot

\* the status of the row, "absent" when there is none
StatusOf(b) == IF Exists(b) THEN bots[b].status ELSE "absent"

\* Bot.countByUser: SELECT COUNT(*) FROM bots WHERE user_id = $1
countByUser(u) == Cardinality({b \in BotIds : Exists(b) /\ bots[b].user_id = u})

\* Bot.create: INSERT ... RETURNING *; the row gets the next id and the
\* column default of status, and no deployment handle
BotCreate(u) ==
  [bots EXCEPT ![nextId] =
     [user_id |-> u, status |-> DefaultStatus, railway_service_id |-> Null]]

\* Bot.update(id, {status}): UPDATE ... WHERE id = $n changes nothing when
\* the row is gone
UpdateStatus(b, st) ==
  IF Exists(b) THEN [bots EXCEPT ![b].status = st] ELSE bots

\* Bot.update(id, {railway_service_id, status, ...})
UpdateStatusSvc(b, st, s) ==
  IF Exists(b)
  THEN [bots EXCEPT ![b].status = st, ![b].railway_service_id = s]
  ELSE bots

\* Bot.delete: DELETE FROM bots WHERE id = $1
BotDelete(b) == [bots EXCEPT ![b] = NoBot]

\* Bot.findByServiceId: the bots whose handle is the service
findByServiceId(s) ==
  {b \in BotIds : Exists(b) /\ bots[b].railway_service_id = s}

\* ------------------------------------------------------------- task helpers
Done(tk) == [tk EXCEPT !.pc = "done"]

\* positions inside a call to the provisioning backend
StartPcs == {"s_find", "s_upd_mock", "p_create", "p_deploy", "p_wait", "p_hook", "p_upd", "p_err",
             "r_deploy", "r_wait", "u_upd", "u_hook"}
StopPcs == {"t_find", "t_svcfind", "t_unhook", "t_upd"}
BackendPcs == StartPcs \cup StopPcs \cup {"d_svc"}

InFlight(t) == tasks[t].pc \in BackendPcs

\* the bot id passed where a service id is expected: bot ids and service ids
\* are different identifier spaces, so it names no service
BotIdAsService(b) == 0 - b

\* what provisioner.stopBot runs before its first await: the runner reads its
\* registry at once, the other variants start with a query
StopEntry(tk) ==
  [tk EXCEPT !.pc =
     CASE provisioner = "mock" -> "t_upd"
       [] provisioner \in {"graphql", "rest"} -> "t_find"
       [] OTHER -> IF tk.bot \in runningBots THEN "t_unhook" ELSE "t_upd"]

\* provisioner.startBot up to its first await (Bot.findById in every variant)
StartEntry(tk) == [tk EXCEPT !.pc = "s_find"]

\* createBot awaiting the start it triggers: a failed provisioning fails the
\* creation
StartReturned_Awaited(tk, ok) ==
  LET r == [tk EXCEPT !.startOut = IF ok THEN "ok" ELSE "fail",
                      !.svc = Null, !.dup = FALSE]
  IN CASE tk.kind = "create" -> Done([r EXCEPT !.resp = IF ok THEN 201 ELSE 500])
       [] tk.kind = "update" -> Done([r EXCEPT !.resp = 200])
       [] OTHER -> Done([r EXCEPT !.resp = IF ok THEN 200 ELSE 500])

\* the caller's continuation when the backend start (or restartService)
\* ends: createBot only logs a failure, updateBot swallows it, startBot and
\* restartBot answer 200 or 500
StartReturned(tk, ok) ==
  LET r == [tk EXCEPT !.startOut = IF ok THEN "ok" ELSE "fail",
                      !.svc = Null, !.dup = FALSE]
  IN CASE tk.kind = "create" -> Done(r)
       [] tk.kind = "update" -> Done([r EXCEPT !.resp = 200])
       [] OTHER -> Done([r EXCEPT !.resp = IF ok THEN 200 ELSE 500])

\* deleteBot without the try/catch around its backend calls: a backend stop
\* that throws ends the request with the error answer, the record in place
StopReturned_NoCatch(tk, ok) ==
  LET r == [tk EXCEPT !.stopOut = IF ok THEN "ok" ELSE "fail", !.svc = Null]
  IN CASE tk.kind = "stop" -> Done([r EXCEPT !.resp = IF ok THEN 200 ELSE 500])
       [] tk.kind = "update" ->
            IF ok THEN StartEntry(r) ELSE Done([r EXCEPT !.resp = 200])
       [] OTHER ->
            IF ~ok THEN Done([r EXCEPT !.resp = 500])
            ELSE IF tk.snapSvc # Null /\ provisioner \in {"graphql", "rest"}
                 THEN [r EXCEPT !.pc = "d_svc", !.svc = tk.snapSvc]
                 ELSE [r EXCEPT !.pc = "del_record", !.svc = Null]

\* the caller's continuation when the backend stop ends: stopBot answers,
\* updateBot goes on to start the bot, deleteBot goes on to deleteService
\* when the bot it read had a handle (a variant without deleteService makes
\* the call throw a TypeError, which the handler's catch swallows) and then
\* to the deletion of the record
StopReturned(tk, ok) ==
  LET r == [tk EXCEPT !.stopOut = IF ok THEN "ok" ELSE "fail", !.svc = Null]
  IN CASE tk.kind = "stop" -> Done([r EXCEPT !.resp = IF ok THEN 200 ELSE 500])
       [] tk.kind = "update" ->
            IF ok THEN StartEntry(r) ELSE Done([r EXCEPT !.resp = 200])
       [] OTHER ->
            IF ok /\ tk.snapSvc # Null /\ provisioner \in {"graphql", "rest"}
            THEN [r EXCEPT !.pc = "d_svc", !.svc = tk.snapSvc]
            ELSE [r EXCEPT !.pc = "del_record", !.svc = Null]

\* a step of the request in slot t.  A slot whose request has been answered
\* is freed (Retire) before any request takes a step: an answered request
\* takes no further step and nothing reads it.  Only the runtime handler of
\* the webhook route touches the conversations
SetTask(t, tk) ==
  /\ \A s \in Slots : tasks[s].pc # "done"
  /\ tasks' = [tasks EXCEPT ![t] = tk]
  /\ UNCHANGED conversations
  /\ UNCHANGED apart

\* an ownership check that only asks whether the row exists
Owns_AnyUser(u, b) == Exists(b)

\* the controller's ownership check on the row Bot.findById returned
Owns(u, b) == Exists(b) /\ bots[b].user_id = u

\* a request with handler k by user u for bot b
Entered(k, u, b) == [Idle EXCEPT !.kind = k, !.user = u, !.bot = b]

NotFound(tk) == Done([tk EXCEPT !.resp = 404])

\* ------------------------------------------------------------------ createBot
\* createBot with the limit check off by one: a user at the ceiling passes
BeginCreate_OffByOne(t, u, valid) ==
  /\ tasks[t] = Idle
  /\ nextId + Cardinality({s \in Slots : tasks[s].pc = "c_insert"}) <= MaxBotIds
  /\ LET tk == [Idle EXCEPT !.kind = "create", !.user = u] IN
       IF ~valid THEN SetTask(t, Done([tk EXCEPT !.resp = 400]))
       ELSE LET userBotCount == countByUser(u) IN
              IF userBotCount > maxBots[u]
              THEN SetTask(t, Done([tk EXCEPT !.resp = 403]))
              ELSE SetTask(t, [tk EXCEPT !.pc = "c_insert"])
  /\ UNCHANGED <<provisioner, publicDomain, bots, nextId, services, nextSvc,
                 runningBots>>

\* POST /api/bots: validation, then Bot.countByUser and the limit check
BeginCreate(t, u, valid) ==
  /\ tasks[t] = Idle
  /\ nextId + Cardinality({s \in Slots : tasks[s].pc = "c_insert"}) <= MaxBotIds
  /\ LET tk == [Idle EXCEPT !.kind = "create", !.user = u] IN
       IF ~valid THEN SetTask(t, Done([tk EXCEPT !.resp = 400]))
       ELSE LET userBotCount == countByUser(u) IN
              IF userBotCount >= maxBots[u]
              THEN SetTask(t, Done([tk EXCEPT !.resp = 403]))
              ELSE SetTask(t, [tk EXCEPT !.pc = "c_insert"])
  /\ UNCHANGED <<provisioner, publicDomain, bots, nextId, services, nextSvc,
                 runningBots>>

\* Bot.create takes effect; the handler calls provisioner.startBot without
\* awaiting it and answers 201
CreateInsert(t) ==
  /\ tasks[t].pc = "c_insert"
  /\ bots' = BotCreate(tasks[t].user)
  /\ nextId' = nextId + 1
  /\ SetTask(t, StartEntry([tasks[t] EXCEPT !.bot = nextId, !.resp = 201]))
  /\ UNCHANGED <<provisioner, publicDomain, services, nextSvc, runningBots>>

\* ------------------------------------------------------- backend: startBot
\* Bot.findById and Bot.findByIdWithTokens of startBot, then the variant's
\* choice: the mock goes to its update, the GraphQL variant always
\* provisions, the REST variant redeploys a stored handle and provisions
\* otherwise, the runner needs RAILWAY_PUBLIC_DOMAIN
StartFind(t) ==
  /\ tasks[t].pc = "s_find"
  /\ LET tk == tasks[t]
         b == tk.bot
         h == bots[b].railway_service_id
     IN
       IF ~Exists(b) THEN SetTask(t, StartReturned(tk, FALSE))
       ELSE CASE provisioner = "mock" -> SetTask(t, [tk EXCEPT !.pc = "s_upd_mock"])
              [] provisioner = "graphql" -> SetTask(t, [tk EXCEPT !.pc = "p_create"])
              [] provisioner = "rest" ->
                   IF h # Null
                   THEN SetTask(t, [tk EXCEPT !.pc = "r_deploy", !.svc = h])
                   ELSE SetTask(t, [tk EXCEPT !.pc = "p_create"])
              [] OTHER ->
                   IF publicDomain
                   THEN SetTask(t, [tk EXCEPT !.pc = "u_upd"])
                   ELSE SetTask(t, StartReturned(tk, FALSE))
  /\ UNCHANGED <<provisioner, publicDomain, bots, nextId, services, nextSvc,
                 runningBots>>

\* MockProvisioner.startBot tagging the bot with its deployment mode instead
\* of a status of the enumeration
MockStartStatus_Manual == "manual"

\* the status MockProvisioner.startBot writes
MockStartStatus == "stopped"

\* MockProvisioner.startBot: Bot.update(botId, {status: 'stopped', webhook_url: null})
MockStartUpdate(t) ==
  /\ tasks[t].pc = "s_upd_mock"
  /\ bots' = UpdateStatus(tasks[t].bot, MockStartStatus)
  /\ SetTask(t, StartReturned(tasks[t], TRUE))
  /\ UNCHANGED <<provisioner, publicDomain, nextId, services, nextSvc,
                 runningBots>>

\* ------------------------------------- backend: provisionBot (remote variants)
\* what steps 1 to 3 of provisionBot can do: createService throws; the
\* service is created and getServiceDomain throws (GraphQL variant only);
\* the service is created and the upsert of one of its variables fails; the
\* service is created and the steps complete
CreateOutcomes ==
  IF provisioner = "graphql" THEN {"no_service", "no_domain", "vars_failed", "ok"}
                             ELSE {"no_service", "vars_failed", "ok"}

\* steps 1 to 3 of provisionBot.  createOpenClawService / createService makes
\* the orchestrator create a service and return its id.  getServiceDomain
\* (GraphQL variant) is a query.  setServiceVariables upserts the variables
\* one by one, each in its own try/catch that logs the failure, so it always
\* returns.  The last two read and change nothing but the new service, so
\* the three calls are one step.
ProvCreateService(t, out) ==
  /\ tasks[t].pc = "p_create"
  /\ LET tk == tasks[t]
         b == tk.bot
     IN
       IF out = "no_service"
       THEN /\ SetTask(t, [tk EXCEPT !.pc = "p_err"])
            /\ UNCHANGED <<services, nextSvc>>
       ELSE /\ nextSvc <= MaxSvc
            /\ services' = services \cup {nextSvc}
            /\ nextSvc' = nextSvc + 1
            /\ SetTask(t, [tk EXCEPT !.svc = nextSvc,
                                     !.dup = Exists(b) /\ bots[b].railway_service_id # Null,
                                     !.varsOk = (out # "vars_failed"),
                                     !.pc = IF out = "no_domain" THEN "p_err"
                                                               ELSE "p_deploy"])
  /\ UNCHANGED <<provisioner, publicDomain, bots, nextId, runningBots>>

\* step 4, deployService: triggers a deployment of an existing service, or
\* throws; the GraphQL variant then waits for readiness, the REST variant
\* goes straight to its update
ProvDeploy(t, ok) ==
  /\ tasks[t].pc = "p_deploy"
  /\ LET tk == [tasks[t] EXCEPT !.varsOk = TRUE] IN
       IF ok /\ tk.svc \in services
       THEN SetTask(t, [tk EXCEPT !.pc = IF provisioner = "graphql"
                                         THEN "p_wait" ELSE "p_upd"])
       ELSE SetTask(t, [tk EXCEPT !.pc = "p_err"])
  /\ UNCHANGED <<provisioner, publicDomain, bots, nextId, services, nextSvc,
                 runningBots>>

\* what one deployment-status query can give: the three kinds of status, or
\* a thrown transport error
PollOutcomes == {"SUCCESS", "FAILED", "BUILDING", "ERROR"}

\* the answers of the deployment-status queries of one wait: the first
\* queries answer head, every later one answers rest
PollStreams ==
  {[head |-> h, rest |-> r] :
     h \in UNION {[1..n -> PollOutcomes] : n \in 0..MaxHead}, r \in PollOutcomes}

\* the answer to the query of iteration i (counted from 0)
PollAt(ps, i) == IF i < Len(ps.head) THEN ps.head[i + 1] ELSE ps.rest

\* waitForDeployment(serviceId, deploymentId, maxAttempts), from iteration i
\* on: SUCCESS returns the domain; FAILED throws inside the try block, whose
\* catch logs a retry as it does for a transport error; any other status
\* loops; after maxAttempts iterations the function throws 'Deployment
\* timeout'.  saw: an earlier poll saw FAILED; again: a poll was made after
\* one that saw FAILED; polls: the status queries made.
RECURSIVE waitForDeployment(_, _, _, _, _)
RECURSIVE waitForDeployment_OneMore(_, _, _, _, _)

\* a loop that tests i <= maxAttempts
waitForDeployment_OneMore(ps, i, maxAttempts, saw, again) ==
  IF i > maxAttempts
  THEN [waitOut |-> "timeout", sawFailed |-> saw, polledAfterFailed |-> again,
        polls |-> i]
  ELSE IF PollAt(ps, i) = "SUCCESS"
       THEN [waitOut |-> "success", sawFailed |-> saw,
             polledAfterFailed |-> again \/ saw, polls |-> i + 1]
       ELSE waitForDeployment_OneMore(ps, i + 1, maxAttempts,
                                      saw \/ PollAt(ps, i) = "FAILED",
                                      again \/ saw)

waitForDeployment(ps, i, maxAttempts, saw, again) ==
  IF i >= maxAttempts
  THEN [waitOut |-> "timeout", sawFailed |-> saw, polledAfterFailed |-> again,
        polls |-> i]
  ELSE IF PollAt(ps, i) = "SUCCESS"
       THEN [waitOut |-> "success", sawFailed |-> saw,
             polledAfterFailed |-> again \/ saw, polls |-> i + 1]
       ELSE waitForDeployment(ps, i + 1, maxAttempts,
                              saw \/ PollAt(ps, i) = "FAILED", again \/ saw)

\* the task after its wait has run against the stream ps
Waited(tk, ps) ==
  LET w == waitForDeployment(ps, 0, MaxAttempts, FALSE, FALSE) IN
    [tk EXCEPT !.waitOut = w.waitOut, !.sawFailed = w.sawFailed,
               !.polledAfterFailed = w.polledAfterFailed]

\* waitForDeployment(serviceId, deploymentId, maxAttempts) called once, on
\* its own, against the stream ps
WaitRun(ps, maxAttempts) ==
  /\ waited = NoWait
  /\ LET w == waitForDeployment(ps, 0, maxAttempts, FALSE, FALSE) IN
       waited' = [ps |-> ps, maxAttempts |-> maxAttempts, out |-> w.waitOut,
                  polls |-> w.polls]
  /\ UNCHANGED besideBench

NextWait == \E ps \in PollStreams, maxAttempts \in 0..MaxAttempts : WaitRun(ps, maxAttempts)

SpecWait == Init /\ [][NextWait]_vars

\* step 5 of the GraphQL provisionBot: waitForDeployment.  Its polls read
\* nothing but the deployment and change nothing, so the loop is one step
ProvWait(t, ps) ==
  /\ tasks[t].pc = "p_wait"
  /\ LET w == Waited(tasks[t], ps) IN
       SetTask(t, [w EXCEPT !.pc = IF w.waitOut = "success"
                                   THEN "p_hook" ELSE "p_err"])
  /\ UNCHANGED <<provisioner, publicDomain, bots, nextId, services, nextSvc,
                 runningBots>>

\* step 6 of the GraphQL provisionBot, configureTelegramWebhook: registers
\* the webhook or fails; it catches every error and returns a boolean that
\* provisionBot does not read
ProvWebhook(t, ok) ==
  /\ tasks[t].pc = "p_hook"
  /\ SetTask(t, [tasks[t] EXCEPT !.pc = "p_upd", !.sawFailed = FALSE,
                                  !.polledAfterFailed = FALSE,
                                  !.hook = IF ok THEN "set" ELSE "not_set"])
  /\ UNCHANGED <<provisioner, publicDomain, bots, nextId, services, nextSvc,
                 runningBots>>

\* the status provisionBot writes with the handle when it succeeds
ProvisionedStatus == IF provisioner = "graphql" THEN "running" ELSE "deploying"

\* the last step of provisionBot: Bot.update(botId, {railway_service_id,
\* status, webhook_url, internal_port})
ProvUpdate(t) ==
  /\ tasks[t].pc = "p_upd"
  /\ bots' = UpdateStatusSvc(tasks[t].bot, ProvisionedStatus, tasks[t].svc)
  /\ SetTask(t, StartReturned(tasks[t], TRUE))
  /\ UNCHANGED <<provisioner, publicDomain, nextId, services, nextSvc,
                 runningBots>>

\* the catch block of provisionBot: Bot.update(botId, {status: 'error'}),
\* then the error is thrown again
ProvCatch(t) ==
  /\ tasks[t].pc = "p_err"
  /\ bots' = UpdateStatus(tasks[t].bot, "error")
  /\ SetTask(t, StartReturned([tasks[t] EXCEPT !.sawFailed = FALSE,
                                               !.polledAfterFailed = FALSE],
                              FALSE))
  /\ UNCHANGED <<provisioner, publicDomain, nextId, services, nextSvc,
                 runningBots>>

\* ------------------------------------ backend: restartService (remote variants)
\* deployService(serviceId) of restartService, no try/catch around it: the
\* GraphQL variant then waits for readiness, the REST variant returns
Redeploy(t, ok) ==
  /\ tasks[t].pc = "r_deploy"
  /\ LET tk == tasks[t] IN
       IF ok /\ tk.svc \in services
       THEN IF provisioner = "graphql"
            THEN SetTask(t, [tk EXCEPT !.pc = "r_wait"])
            ELSE SetTask(t, StartReturned(tk, TRUE))
       ELSE SetTask(t, StartReturned(tk, FALSE))
  /\ UNCHANGED <<provisioner, publicDomain, bots, nextId, services, nextSvc,
                 runningBots>>

\* the waitForDeployment that the GraphQL restartService calls
RedeployWait(t, ps) ==
  /\ tasks[t].pc = "r_wait"
  /\ LET w == Waited(tasks[t], ps) IN
       SetTask(t, StartReturned(w, w.waitOut = "success"))
  /\ UNCHANGED <<provisioner, publicDomain, bots, nextId, services, nextSvc,
                 runningBots>>

\* ------------------------------------------- backend: SimpleBotRunner.startBot
\* Bot.update(botId, {status: 'running', webhook_url}), then runningBots.set
RunnerUpdate(t) ==
  /\ tasks[t].pc = "u_upd"
  /\ bots' = UpdateStatus(tasks[t].bot, "running")
  /\ runningBots' = runningBots \cup {tasks[t].bot}
  /\ SetTask(t, [tasks[t] EXCEPT !.pc = "u_hook"])
  /\ UNCHANGED <<provisioner, publicDomain, nextId, services, nextSvc>>

\* what the setWebhook call can do: register, answer ok: false, or throw
HookOutcomes == {"ok", "rejected", "throw"}

\* setTelegramWebhook: it returns the platform's answer whatever it says and
\* throws again what fetch throws
RunnerWebhook(t, out) ==
  /\ tasks[t].pc = "u_hook"
  /\ SetTask(t, StartReturned([tasks[t] EXCEPT !.hook = IF out = "ok" THEN "set"
                                                        ELSE "not_set"],
                              out # "throw"))
  /\ UNCHANGED <<provisioner, publicDomain, bots, nextId, services, nextSvc,
                 runningBots>>

\* --------------------------------------------------------- backend: stopBot
\* Bot.findById of the remote variants' stopBot: without a row it returns;
\* the GraphQL variant calls stopService when the row has a handle; in the
\* other cases the row is marked stopped
StopFind(t) ==
  /\ tasks[t].pc = "t_find"
  /\ LET tk == tasks[t]
         b == tk.bot
     IN
       IF ~Exists(b) THEN SetTask(t, StopReturned(tk, TRUE))
       ELSE IF provisioner = "graphql" /\ bots[b].railway_service_id # Null
            THEN SetTask(t, [tk EXCEPT !.pc = "t_svcfind",
                                       !.svc = bots[b].railway_service_id])
            ELSE SetTask(t, [tk EXCEPT !.pc = "t_upd"])
  /\ UNCHANGED <<provisioner, publicDomain, bots, nextId, services, nextSvc,
                 runningBots>>

\* stopService: Bot.findByServiceId and Bot.findByIdWithTokens; without a
\* bot for the service it returns success
StopServiceFind(t) ==
  /\ tasks[t].pc = "t_svcfind"
  /\ LET tk == tasks[t] IN
       IF tk.bot \in findByServiceId(tk.svc)
       THEN SetTask(t, [tk EXCEPT !.pc = "t_unhook"])
       ELSE SetTask(t, StopReturned(tk, TRUE))
  /\ UNCHANGED <<provisioner, publicDomain, bots, nextId, services, nextSvc,
                 runningBots>>

\* the deleteWebhook call.  In stopService a throwing fetch ends the stop
\* with the error; the runner's deleteTelegramWebhook logs it, and the
\* runner then drops the bot from its registry
StopUnhook(t, ok) ==
  /\ tasks[t].pc = "t_unhook"
  /\ LET tk == [tasks[t] EXCEPT !.hook = IF ok THEN "deleted" ELSE "not_deleted"] IN
       IF provisioner = "runner"
       THEN /\ runningBots' = runningBots \ {tk.bot}
            /\ SetTask(t, [tk EXCEPT !.pc = "t_upd"])
       ELSE /\ UNCHANGED runningBots
            /\ IF ok THEN SetTask(t, [tk EXCEPT !.pc = "t_upd"])
                     ELSE SetTask(t, StopReturned(tk, FALSE))
  /\ UNCHANGED <<provisioner, publicDomain, bots, nextId, services, nextSvc>>

\* Bot.update(id, {status: 'stopped'}), the last step of every stop
StopUpdate(t) ==
  /\ tasks[t].pc = "t_upd"
  /\ bots' = UpdateStatus(tasks[t].bot, "stopped")
  /\ SetTask(t, StopReturned(tasks[t], TRUE))
  /\ UNCHANGED <<provisioner, publicDomain, nextId, services, nextSvc,
                 runningBots>>

\* --------------------------------------------------------------- deleteBot
\* DELETE /api/bots/:id: Bot.findById and the ownership check; the backend
\* stop runs when the bot read is running or has a handle
BeginDelete(t, u, b) ==
  /\ tasks[t] = Idle
  /\ LET tk == Entered("delete", u, b) IN
       IF ~Owns(u, b) THEN SetTask(t, NotFound(tk))
       ELSE IF bots[b].status = "running" \/ bots[b].railway_service_id # Null
            THEN SetTask(t, StopEntry([tk EXCEPT !.snapSvc = bots[b].railway_service_id]))
            ELSE SetTask(t, [tk EXCEPT !.pc = "del_record"])
  /\ UNCHANGED <<provisioner, publicDomain, bots, nextId, services, nextSvc,
                 runningBots>>

\* deleteService(bot.railway_service_id) of the remote variants; what it
\* throws is caught by deleteBot
DeleteService(t, ok) ==
  /\ tasks[t].pc = "d_svc"
  /\ services' = IF ok THEN services \ {tasks[t].svc} ELSE services
  /\ SetTask(t, [tasks[t] EXCEPT !.pc = "del_record", !.tore = TRUE, !.svc = Null])
  /\ UNCHANGED <<provisioner, publicDomain, bots, nextId, nextSvc,
                 runningBots>>

\* Bot.delete(req.params.id), then the success answer
DeleteRecord(t) ==
  /\ tasks[t].pc = "del_record"
  /\ bots' = BotDelete(tasks[t].bot)
  /\ SetTask(t, Done([tasks[t] EXCEPT !.resp = 200, !.snapSvc = Null]))
  /\ UNCHANGED <<provisioner, publicDomain, nextId, services, nextSvc,
                 runningBots>>

\* ------------------------------------------------- startBot, stopBot, restartBot
\* startBot without its test of the status: a running bot is started again
BeginStart_NoCheck(t, u, b) ==
  /\ tasks[t] = Idle
  /\ LET tk == Entered("start", u, b) IN
       IF ~Owns(u, b) THEN SetTask(t, NotFound(tk))
       ELSE SetTask(t, StartEntry(tk))
  /\ UNCHANGED <<provisioner, publicDomain, bots, nextId, services, nextSvc,
                 runningBots>>

\* POST /api/bots/:id/start: rejected with 400 when the bot read is running
BeginStart(t, u, b) ==
  /\ tasks[t] = Idle
  /\ LET tk == Entered("start", u, b) IN
       IF ~Owns(u, b) THEN SetTask(t, NotFound(tk))
       ELSE IF bots[b].status = "running"
            THEN SetTask(t, Done([tk EXCEPT !.resp = 400]))
            ELSE SetTask(t, StartEntry(tk))
  /\ UNCHANGED <<provisioner, publicDomain, bots, nextId, services, nextSvc,
                 runningBots>>

\* POST /api/bots/:id/stop: rejected with 400 unless the bot read is running
BeginStop(t, u, b) ==
  /\ tasks[t] = Idle
  /\ LET tk == Entered("stop", u, b) IN
       IF ~Owns(u, b) THEN SetTask(t, NotFound(tk))
       ELSE IF bots[b].status # "running"
            THEN SetTask(t, Done([tk EXCEPT !.resp = 400]))
            ELSE SetTask(t, StopEntry(tk))
  /\ UNCHANGED <<provisioner, publicDomain, bots, nextId, services, nextSvc,
                 runningBots>>

\* POST /api/bots/:id/restart: provisioner.restartService(bot.id).  The mock
\* runs its startBot; the remote variants take the argument for a service
\* id; the runner has no restartService, so the call throws a TypeError
BeginRestart(t, u, b) ==
  /\ tasks[t] = Idle
  /\ LET tk == Entered("restart", u, b) IN
       IF ~Owns(u, b) THEN SetTask(t, NotFound(tk))
       ELSE CASE provisioner = "mock" -> SetTask(t, StartEntry(tk))
              [] provisioner = "runner" -> SetTask(t, Done([tk EXCEPT !.resp = 500]))
              [] OTHER -> SetTask(t, [tk EXCEPT !.pc = "r_deploy",
                                                !.svc = BotIdAsService(b)])
  /\ UNCHANGED <<provisioner, publicDomain, bots, nextId, services, nextSvc,
                 runningBots>>

\* provisioner.restartService(serviceId) called with the service id stored on
\* the bot, the argument the method is written for (remote variants)
RestartService(t, b) ==
  /\ tasks[t] = Idle
  /\ provisioner \in {"graphql", "rest"}
  /\ Exists(b) /\ bots[b].railway_service_id # Null
  /\ SetTask(t, [Entered("restart", bots[b].user_id, b)
                   EXCEPT !.pc = "r_deploy", !.svc = bots[b].railway_service_id])
  /\ UNCHANGED <<provisioner, publicDomain, bots, nextId, services, nextSvc,
                 runningBots>>

\* ---------------------------------------------------------------- updateBot
\* PUT /api/bots/:id: Bot.findById, the ownership check and the validation;
\* aiChanged says whether the body names aiToken, aiProvider or aiModel
BeginUpdate(t, u, b, valid, aiChanged) ==
  /\ tasks[t] = Idle
  /\ LET tk == Entered("update", u, b) IN
       IF ~Owns(u, b) THEN SetTask(t, NotFound(tk))
       ELSE IF ~valid THEN SetTask(t, Done([tk EXCEPT !.resp = 400]))
            ELSE SetTask(t, [tk EXCEPT !.pc = "up_update",
                                       !.needsRestart = aiChanged /\ bots[b].status = "running"])
  /\ UNCHANGED <<provisioner, publicDomain, bots, nextId, services, nextSvc,
                 runningBots>>

\* Bot.update(req.params.id, updates): none of the fields the controller
\* passes is the status or the handle.  Then the stop-then-start cycle when
\* needsRestart, else the answer
UpdateRecord(t) ==
  /\ tasks[t].pc = "up_update"
  /\ IF tasks[t].needsRestart
     THEN SetTask(t, StopEntry(tasks[t]))
     ELSE SetTask(t, Done([tasks[t] EXCEPT !.resp = 200]))
  /\ UNCHANGED <<provisioner, publicDomain, bots, nextId, services, nextSvc,
                 runningBots>>

\* ------------------------------------------------------------ status queries
QueryKinds == {"status", "get", "list"}

\* GET /api/bots/:id/status, GET /api/bots/:id and the entry of bot b in
\* GET /api/bots: the controller's read (Bot.findById and the ownership
\* check, or Bot.findByUser, which lists only the user's bots), then the call
\* of provisioner.getBotStatus, in which the runner reads its registry
\* before it awaits anything
BeginQuery(t, k, u, b) ==
  /\ tasks[t] = Idle
  /\ LET tk == Entered(k, u, b) IN
       IF ~Owns(u, b)
       THEN SetTask(t, Done([tk EXCEPT !.resp = IF k = "list" THEN 200 ELSE 404]))
       ELSE SetTask(t, [tk EXCEPT !.pc = "q_find",
                                  !.q.reg = (provisioner = "runner" /\ b \in runningBots)])
  /\ UNCHANGED <<provisioner, publicDomain, bots, nextId, services, nextSvc,
                 runningBots>>

\* GET /api/bots/:id/logs: Bot.findById and the ownership check, then the
\* log lines the backend reads (an empty list when the read throws); the
\* handler writes nothing
BeginLogs(t, u, b) ==
  /\ tasks[t] = Idle
  /\ LET tk == Entered("logs", u, b) IN
       IF ~Owns(u, b) THEN SetTask(t, NotFound(tk))
       ELSE SetTask(t, Done([tk EXCEPT !.resp = 200]))
  /\ UNCHANGED <<provisioner, publicDomain, bots, nextId, services, nextSvc,
                 runningBots>>

\* the answer getBotStatus builds from the row alone
LocalStatus(st) == [thrown |-> FALSE, status |-> st, running |-> (st = "running")]

\* what the getServiceStatus call of getBotStatus can do: the latest
\* deployment is SUCCESS, it is something else, or the API is unreachable
RemoteOutcomes == {"SUCCESS", "OTHER", "unreachable"}

\* getBotStatus without a catch around its getServiceStatus call: the
\* transport error leaves getBotStatus
Unreachable_Propagates(st) == [thrown |-> TRUE, status |-> st, running |-> FALSE]

\* getBotStatus when the orchestrator API is unreachable, for a row of status
\* st that has a handle: the GraphQL variant catches the error of
\* getServiceStatus and falls through to the answer built from the row; the
\* getServiceStatus of the REST variant catches it itself and returns null,
\* so the answer reports the row's status and running: (undefined === 'SUCCESS')
Unreachable(st) ==
  IF provisioner = "graphql" THEN LocalStatus(st)
  ELSE [thrown |-> FALSE, status |-> st, running |-> FALSE]

\* a mock whose status answers carry no message
MockMessage_Untagged(row) == "none"

\* the message field of MockProvisioner.getBotStatus: 'Déployé sur Railway'
\* for a row with a handle, 'Mode manuel - déploiement requis' without
MockMessage(row) ==
  IF row.railway_service_id # Null THEN "deployed" ELSE "manual"

\* Bot.findById of getBotStatus: null without a row; the mock answers from
\* the row, the runner from its registry and the row, the remote variants
\* from the row when it has no handle and ask the orchestrator otherwise
QueryFind(t) ==
  /\ tasks[t].pc = "q_find"
  /\ LET tk == tasks[t]
         b == tk.bot
         st == bots[b].status
         answered(a) == Done([tk EXCEPT !.resp = 200, !.q.seen = st,
                                        !.q.status = a.status,
                                        !.q.running = a.running])
     IN
       IF ~Exists(b)
       THEN SetTask(t, Done([tk EXCEPT !.resp = 200, !.q.seen = "null",
                                       !.q.status = "null"]))
       ELSE CASE provisioner = "mock" ->
                   SetTask(t, [answered(LocalStatus(st))
                                 EXCEPT !.q.message = MockMessage(bots[b])])
              [] provisioner = "runner" ->
                   SetTask(t, answered([status |-> IF tk.q.reg THEN "running" ELSE st,
                                        running |-> tk.q.reg]))
              [] OTHER ->
                   IF bots[b].railway_service_id = Null
                   THEN SetTask(t, answered(LocalStatus(st)))
                   ELSE SetTask(t, [tk EXCEPT !.pc = "q_remote", !.q.seen = st])
  /\ UNCHANGED <<provisioner, publicDomain, bots, nextId, services, nextSvc,
                 runningBots>>

\* the getServiceStatus call ends and getBotStatus answers from it and from
\* the row it read; an error that leaves getBotStatus makes listBots answer
\* with runtime: null and the other two handlers fail
QueryRemote(t, out) ==
  /\ tasks[t].pc = "q_remote"
  /\ LET tk == [tasks[t] EXCEPT !.q.remote = out]
         a == IF out = "unreachable" THEN Unreachable(tk.q.seen)
              ELSE [thrown |-> FALSE, status |-> tk.q.seen,
                    running |-> (out = "SUCCESS")]
     IN
       IF a.thrown
       THEN SetTask(t, Done([tk EXCEPT !.resp = IF tk.kind = "list" THEN 200 ELSE 500,
                                       !.q.status = "null"]))
       ELSE SetTask(t, Done([tk EXCEPT !.resp = 200, !.q.status = a.status,
                                       !.q.running = a.running]))
  /\ UNCHANGED <<provisioner, publicDomain, bots, nextId, services, nextSvc,
                 runningBots>>

\* the request is over and its slot is free again
Retire(t) ==
  /\ tasks[t].pc = "done"
  /\ tasks' = [tasks EXCEPT ![t] = Idle]
  /\ UNCHANGED <<provisioner, publicDomain, bots, nextId, services, nextSvc,
                 runningBots, conversations>>
  /\ UNCHANGED apart

\* a step of a request that creates, changes or deletes a bot
Lifecycle(t) ==
  \/ \E u \in Creators, valid \in BOOLEAN : BeginCreate(t, u, valid)
  \/ CreateInsert(t)
  \/ StartFind(t)
  \/ MockStartUpdate(t)
  \/ \E out \in CreateOutcomes : ProvCreateService(t, out)
  \/ \E ok \in BOOLEAN : ProvDeploy(t, ok)
  \/ \E ps \in PollStreams : ProvWait(t, ps)
  \/ \E ok \in BOOLEAN : ProvWebhook(t, ok)
  \/ ProvUpdate(t)
  \/ ProvCatch(t)
  \/ \E b \in BotIds : RestartService(t, b)
  \/ \E ok \in BOOLEAN : Redeploy(t, ok)
  \/ \E ps \in PollStreams : RedeployWait(t, ps)
  \/ RunnerUpdate(t)
  \/ \E o \in HookOutcomes : RunnerWebhook(t, o)
  \/ StopFind(t)
  \/ StopServiceFind(t)
  \/ \E ok \in BOOLEAN : StopUnhook(t, ok)
  \/ StopUpdate(t)
  \/ \E u \in Users, b \in BotIds : BeginDelete(t, u, b)
  \/ \E ok \in BOOLEAN : DeleteService(t, ok)
  \/ DeleteRecord(t)
  \/ \E u \in Users, b \in BotIds : BeginStart(t, u, b)
  \/ \E u \in Users, b \in BotIds : BeginStop(t, u, b)
  \/ \E u \in Users, b \in BotIds : BeginRestart(t, u, b)
  \/ \E u \in Users, b \in BotIds, valid \in BOOLEAN, aiChanged \in BOOLEAN :
       BeginUpdate(t, u, b, valid, aiChanged)
  \/ UpdateRecord(t)

Next == \E t \in Slots : Lifecycle(t) \/ Retire(t)

Spec == Init /\ [][Next]_vars

\* a step of a status query
Query(t) ==
  \/ \E k \in QueryKinds, u \in Users, b \in BotIds : BeginQuery(t, k, u, b)
  \/ \E u \in Users, b \in BotIds : BeginLogs(t, u, b)
  \/ QueryFind(t)
  \/ \E out \in RemoteOutcomes : QueryRemote(t, out)

\* status queries next to the requests that change bots: the queries write
\* nothing, so one slot takes the queries and the other the requests
Writer == CHOOSE t \in Slots : \A s \in Slots : s >= t
Reader == CHOOSE t \in Slots : \A s \in Slots : s <= t

NextQuery ==
  \/ Lifecycle(Writer)
  \/ Query(Reader)
  \/ \E t \in Slots : Retire(t)

SpecQuery == Init /\ [][NextQuery]_vars

\* ---------------------------------------------------------- inbound webhook
\* the shapes of an update the messaging platform posts: one without a
\* message, one whose message has no chat, a /start or /help command, and a
\* text for the AI
Payloads == {"empty", "nochat", "command", "text"}

\* the number of turns stored in all conversations (one chat per bot)
RECURSIVE TurnsUpTo(_)
TurnsUpTo(n) == IF n = 0 THEN 0 ELSE conversations[n] + TurnsUpTo(n - 1)

Turns == TurnsUpTo(MaxBotIds)

\* a webhook route that lets the handler's error reach the platform
RouteStatus_Propagates(threw) == IF threw THEN 500 ELSE 200

\* POST /webhook/telegram/:botId: res.sendStatus(200) after the handler
\* returned, and in the catch after the handler threw
RouteStatus(threw) == 200

\* the route answers: after the await of handleTelegramUpdate, logging the
\* error first when the handler threw
Acknowledge(tk, threw) ==
  Done([tk EXCEPT !.resp = RouteStatus(threw), !.w.threw = threw,
                  !.w.logged = threw])

\* a step of the webhook request in slot t that leaves conv in the
\* conversations map
SetHook(t, tk, conv) ==
  /\ \A s \in Slots : tasks[s].pc # "done"
  /\ tasks' = [tasks EXCEPT ![t] = tk]
  /\ conversations' = conv
  /\ UNCHANGED apart

\* history.push(...) of the user's message, then one history.shift() when
\* more than TurnCap turns are stored
PushUser(n) == IF n + 1 > TurnCap THEN (n + 1) - 1 ELSE n + 1

\* history.push(...) of the assistant's reply
PushAssistant(n) == n + 1

\* the route calls handleTelegramUpdate, which runs up to its first await: it
\* returns when the registry does not hold the bot or the update has no
\* message, throws on a message without chat, sends the answer to a command,
\* and otherwise stores the user's turn and calls the AI provider with the
\* stored history
BeginHook(t, b, p) ==
  /\ tasks[t] = Idle
  /\ (p = "text" /\ b \in runningBots) => Turns < MaxTurns
  /\ LET tk == [Entered("webhook", 0, b) EXCEPT !.w.payload = p,
                                                !.w.found = (b \in runningBots)]
     IN
       CASE b \notin runningBots -> SetHook(t, Acknowledge(tk, FALSE), conversations)
         [] b \in runningBots /\ p = "empty" ->
              SetHook(t, Acknowledge(tk, FALSE), conversations)
         [] b \in runningBots /\ p = "nochat" ->
              SetHook(t, Acknowledge(tk, TRUE), conversations)
         [] b \in runningBots /\ p = "command" ->
              SetHook(t, [tk EXCEPT !.pc = "w_cmd"], conversations)
         [] b \in runningBots /\ p = "text" ->
              SetHook(t, [tk EXCEPT !.pc = "w_ai",
                                    !.w.sent = PushUser(conversations[b])],
                      [conversations EXCEPT ![b] = PushUser(@)])
  /\ UNCHANGED <<provisioner, publicDomain, bots, nextId, services, nextSvc,
                 runningBots>>

\* what the chat-completion call can do: answer, answer with data.error, or
\* fail (fetch or response.json() throws)
AiOutcomes == {"reply", "error", "throws"}

\* the chat-completion call ends: the reply is stored and sent to the chat;
\* after data.error and in the catch the handler sends an apology
HookAi(t, out) ==
  /\ tasks[t].pc = "w_ai"
  /\ LET b == tasks[t].bot IN
       IF out = "reply"
       THEN SetHook(t, [tasks[t] EXCEPT !.pc = "w_send"],
                    [conversations EXCEPT ![b] = PushAssistant(@)])
       ELSE SetHook(t, [tasks[t] EXCEPT !.pc = "w_sorry"], conversations)
  /\ UNCHANGED <<provisioner, publicDomain, bots, nextId, services, nextSvc,
                 runningBots>>

\* sendTelegramMessage of the reply ends (it catches its own errors); the
\* handler goes on to Bot.incrementMessages
HookSent(t) ==
  /\ tasks[t].pc = "w_send"
  /\ SetHook(t, [tasks[t] EXCEPT !.pc = "w_count"], conversations)
  /\ UNCHANGED <<provisioner, publicDomain, bots, nextId, services, nextSvc,
                 runningBots>>

\* Bot.incrementMessages ends: the handler returns, or its catch sends an
\* apology when the database call failed
HookCounted(t, ok) ==
  /\ tasks[t].pc = "w_count"
  /\ IF ok
     THEN SetHook(t, Acknowledge(tasks[t], FALSE), conversations)
     ELSE SetHook(t, [tasks[t] EXCEPT !.pc = "w_sorry"], conversations)
  /\ UNCHANGED <<provisioner, publicDomain, bots, nextId, services, nextSvc,
                 runningBots>>

\* sendTelegramMessage of the answer to a command or of an apology ends:
\* the handler returns and the route answers
HookReturns(t) ==
  /\ tasks[t].pc \in {"w_cmd", "w_sorry"}
  /\ SetHook(t, Acknowledge(tasks[t], FALSE), conversations)
  /\ UNCHANGED <<provisioner, publicDomain, bots, nextId, services, nextSvc,
                 runningBots>>

\* positions of a webhook request at which a call to the AI provider or to
\* the messaging platform is pending
DownstreamPcs == {"w_ai", "w_send", "w_cmd", "w_sorry"}

\* a step of an inbound webhook request
Hook(t) ==
  \/ \E b \in BotIds, p \in Payloads : BeginHook(t, b, p)
  \/ \E out \in AiOutcomes : HookAi(t, out)
  \/ HookSent(t)
  \/ \E ok \in BOOLEAN : HookCounted(t, ok)
  \/ HookReturns(t)

\* inbound webhooks next to the requests that change bots
NextWebhook ==
  \/ Lifecycle(Writer)
  \/ Hook(Reader)
  \/ \E t \in Slots : Retire(t)

SpecWebhook == Init /\ [][NextWebhook]_vars

\* ----------------------------------------------------------- Credential Vault
\* The characters of a plaintext (a JavaScript string): an ASCII character,
\* an unpaired surrogate, and U+FFFD, the replacement character
Chars == {"a", "S", "R"}

RECURSIVE StringsUpTo(_)
StringsUpTo(n) ==
  IF n = 0 THEN {<<>>}
  ELSE LET shorter == StringsUpTo(n - 1) IN
         shorter \cup {Append(s, c) : s \in {x \in shorter : Len(x) = n - 1}, c \in Chars}

Plaintexts == StringsUpTo(MaxLen)

\* a string without unpaired surrogate
WellFormed(s) == \A i \in 1..Len(s) : s[i] # "S"

\* this.key, and a key the service was not configured with
Key == 0
OtherKey == 1

\* crypto.randomBytes(16)
IVs == 0..1

\* the 'utf8' input encoding of cipher.update: one byte for the ASCII
\* character, two for U+FFFD, and an unpaired surrogate is encoded as U+FFFD
Utf8Char(c) == IF c = "a" THEN <<0>> ELSE <<2, 3>>

RECURSIVE Utf8Encode(_)
Utf8Encode(s) ==
  IF s = <<>> THEN <<>> ELSE Utf8Char(Head(s)) \o Utf8Encode(Tail(s))

\* the 'utf8' output encoding of decipher.update and decipher.final: a byte
\* that starts no valid sequence is decoded as U+FFFD
RECURSIVE Utf8Decode(_)
Utf8Decode(bs) ==
  IF bs = <<>> THEN <<>>
  ELSE IF Head(bs) = 0 THEN <<"a">> \o Utf8Decode(Tail(bs))
  ELSE IF Head(bs) = 2 /\ Len(bs) >= 2 /\ bs[2] = 3
       THEN <<"R">> \o Utf8Decode(Tail(Tail(bs)))
  ELSE <<"R">> \o Utf8Decode(Tail(bs))

\* the keystream byte of aes-256-gcm at position i under key k and IV iv
\* (bytes are 0..3)
Keystream(k, iv, i) == (2 * k + iv + i) % 4

\* cipher.update and cipher.final: the bytes combined with the keystream
Crypt(bs, k, iv) == [i \in 1..Len(bs) |-> (bs[i] + Keystream(k, iv, i)) % 4]

\* a decipher that leaves the IV out of the keystream
Uncrypt_NoIv(bs, k, iv) == [i \in 1..Len(bs) |-> (bs[i] + 4 - Keystream(k, 0, i)) % 4]

\* decipher.update and decipher.final: the keystream taken off again
Uncrypt(bs, k, iv) == [i \in 1..Len(bs) |-> (bs[i] + 4 - Keystream(k, iv, i)) % 4]

RECURSIVE Num(_)
Num(bs) == IF bs = <<>> THEN 0 ELSE (Head(bs) + 1) + 5 * Num(Tail(bs))

\* cipher.getAuthTag(): the 128-bit tag of GCM over key, IV and ciphertext,
\* taken as free of collisions (a different number for different arguments)
AuthTag(k, iv, ct) == k + 2 * iv + 4 * Num(ct)

\* Buffer#toString('base64'): one character of the alphabet (1, 2, ...) per
\* byte
Base64Encode(buf) == [i \in 1..Len(buf) |-> buf[i] + 1]

\* a character outside the base64 alphabet, such as a line feed
Junk == 0

\* Buffer.from(s, 'base64'): characters outside the alphabet are skipped
Base64Decode(s) ==
  LET v == SelectSeq(s, LAMBDA c : c # Junk) IN [i \in 1..Len(v) |-> v[i] - 1]

\* encrypt under key k with the IV iv that randomBytes returned: IV, tag and
\* ciphertext concatenated and base64-encoded
EncryptWith(k, text, iv) ==
  LET ct == Crypt(Utf8Encode(text), k, iv) IN
    Base64Encode(<<iv, AuthTag(k, iv, ct)>> \o ct)

encrypt(text, iv) == EncryptWith(Key, text, iv)

\* decrypt throws 'Failed to decrypt data'
DecryptFailed == [ok |-> FALSE, text |-> <<>>]

\* decrypt: the blob is decoded and sliced into IV, tag and ciphertext;
\* createDecipheriv and setAuthTag throw on a missing IV or tag,
\* decipher.final throws when the tag does not verify
decrypt(blob) ==
  LET data == Base64Decode(blob) IN
    IF Len(data) < 2 THEN DecryptFailed
    ELSE LET iv == data[1]
             authTag == data[2]
             ct == SubSeq(data, 3, Len(data))
         IN IF authTag # AuthTag(Key, iv, ct) THEN DecryptFailed
            ELSE [ok |-> TRUE, text |-> Utf8Decode(Uncrypt(ct, Key, iv))]

\* what can happen to a blob between encrypt and decrypt: character i is
\* replaced by the next of the alphabet, a character outside the alphabet is
\* put after character i, the last character is lost, or the blob is one made
\* under another key
TamperKinds == {"replace", "insert", "truncate", "rekey"}

Tamper(kind, i, v) ==
  CASE kind = "replace" -> [v.blob EXCEPT ![i] = @ + 1]
    [] kind = "insert" ->
         SubSeq(v.blob, 1, i) \o <<Junk>> \o SubSeq(v.blob, i + 1, Len(v.blob))
    [] kind = "truncate" -> SubSeq(v.blob, 1, Len(v.blob) - 1)
    [] kind = "rekey" -> EncryptWith(OtherKey, v.text, v.iv)

\* encryption.encrypt(text)
VaultEncrypt(text, iv) ==
  /\ vault.pc = "unused"
  /\ vault' = [vault EXCEPT !.pc = "sealed", !.text = text, !.iv = iv,
                            !.blob = encrypt(text, iv),
                            !.given = encrypt(text, iv)]
  /\ UNCHANGED besideVault

\* the stored blob is changed before it is read back
VaultTamper(kind, i) ==
  /\ vault.pc = "sealed"
  /\ vault.given = vault.blob
  /\ i \in 1..Len(vault.blob)
  /\ kind \in {"truncate", "rekey"} => i = Len(vault.blob)
  /\ vault' = [vault EXCEPT !.given = Tamper(kind, i, vault)]
  /\ UNCHANGED besideVault

\* encryption.decrypt(blob)
VaultDecrypt ==
  /\ vault.pc = "sealed"
  /\ vault' = [vault EXCEPT !.pc = "opened", !.out = decrypt(vault.given)]
  /\ UNCHANGED besideVault

\* the longest blob: IV, tag and two bytes for each character
MaxBlob == 2 + 2 * MaxLen

NextVault ==
  \/ \E text \in Plaintexts, iv \in IVs : VaultEncrypt(text, iv)
  \/ \E kind \in TamperKinds, i \in 1..MaxBlob : VaultTamper(kind, i)
  \/ VaultDecrypt

SpecVault == Init /\ [][NextVault]_vars

\* ----------------------------------------- Bot Record Store: credential columns
\* the credentials a user gives a bot
Tokens == {<<"a">>, <<"R">>}

\* the values of the status column the store operations below tell apart
RowStatus == {"deploying", "running"}

\* the columns of a row that sanitize removes
EncryptedColumns == {"platform_token_encrypted", "ai_token_encrypted"}

\* the fields findByIdWithTokens adds
TokenFields == {"platformToken", "aiToken"}

\* the columns of the bots table in this model
Columns == {"id", "status"} \cup EncryptedColumns

\* the column list of the SELECT of findByUser
ListColumns == {"id", "status"}

Rows == {b \in StoreIds : table[b] # NoRow}

\* a row, or part of one, as the object the driver returns: field -> value
Project(row, cols) == [c \in cols |-> row[c]]

\* BotModel.sanitize: the object without the two encrypted fields
sanitize(row) == Project(row, DOMAIN row \ EncryptedColumns)

\* result.rows[0] handed back as the driver returned it
Raw(row) == Project(row, DOMAIN row)

\* a create that writes the token as it came
Seal_Plain(token, iv) == Base64Encode(Utf8Encode(token))

\* encryption.encrypt(token) in create and update, with the IV it drew
Seal(token, iv) == encrypt(token, iv)

Handed(op, rs) == [op |-> op, rows |-> rs]

\* Bot.create: both tokens are encrypted, the row is inserted and returned
\* sanitized
StoreCreate(b, pt, at, iv1, iv2) ==
  /\ table[b] = NoRow
  /\ \A c \in StoreIds : c < b => table[c] # NoRow
  /\ LET row == [id |-> b, status |-> "deploying",
                 platform_token_encrypted |-> Seal(pt, iv1),
                 ai_token_encrypted |-> Seal(at, iv2)]
     IN /\ table' = [table EXCEPT ![b] = row]
        /\ handed' = Handed("create", {sanitize(row)})
  /\ UNCHANGED besideStore

\* Bot.findById and Bot.findByServiceId: the row sanitized, or null
StoreFind(op, b) ==
  /\ op \in {"findById", "findByServiceId"}
  /\ handed' = Handed(op, {sanitize(table[c]) : c \in Rows \cap {b}})
  /\ UNCHANGED <<table, besideStore>>

\* Bot.findByIdWithTokens: the row sanitized, with the two decrypted tokens
StoreFindWithTokens(b) ==
  /\ b \in Rows
  /\ decrypt(table[b].platform_token_encrypted).ok
  /\ decrypt(table[b].ai_token_encrypted).ok
  /\ handed' = Handed("findByIdWithTokens",
                      {[c \in (DOMAIN sanitize(table[b])) \cup TokenFields |->
                          CASE c = "platformToken" ->
                                 decrypt(table[b].platform_token_encrypted).text
                            [] c = "aiToken" ->
                                 decrypt(table[b].ai_token_encrypted).text
                            [] OTHER -> table[b][c]]})
  /\ UNCHANGED <<table, besideStore>>

\* Bot.findByUser: the listed columns of the rows
StoreFindByUser ==
  /\ handed' = Handed("findByUser", {Project(table[c], ListColumns) : c \in Rows})
  /\ UNCHANGED <<table, besideStore>>

\* Bot.update with a status, an ai_token, or both: the token is encrypted,
\* the row is written and returned sanitized
StoreUpdate(b, st, at, iv) ==
  /\ st \in RowStatus \cup {"same"}
  /\ at \in Tokens \cup {<<>>}
  /\ st # "same" \/ at # <<>>
  /\ at = <<>> => iv = 0
  /\ IF b \in Rows
     THEN LET row == [table[b] EXCEPT
                        !.status = IF st = "same" THEN @ ELSE st,
                        !.ai_token_encrypted = IF at = <<>> THEN @ ELSE Seal(at, iv)]
          IN /\ table' = [table EXCEPT ![b] = row]
             /\ handed' = Handed("update", {sanitize(row)})
     ELSE /\ table' = table
          /\ handed' = Handed("update", {})
  /\ UNCHANGED besideStore

\* Bot.updateStatus and Bot.updateRuntime: result.rows[0] is returned as it is
StoreUpdateStatus(op, b, st) ==
  /\ op \in {"updateStatus", "updateRuntime"}
  /\ op = "updateRuntime" => st = "same"
  /\ IF b \in Rows
     THEN LET row == [table[b] EXCEPT !.status = IF st = "same" THEN @ ELSE st]
          IN /\ table' = [table EXCEPT ![b] = row]
             /\ handed' = Handed(op, {Raw(row)})
     ELSE /\ table' = table
          /\ handed' = Handed(op, {})
  /\ UNCHANGED besideStore

\* Bot.getRunning: result.rows is returned as it is
StoreGetRunning ==
  /\ handed' = Handed("getRunning",
                      {Raw(table[c]) : c \in {r \in Rows : table[r].status = "running"}})
  /\ UNCHANGED <<table, besideStore>>

\* Bot.getByStatus: every row sanitized
StoreGetByStatus(st) ==
  /\ handed' = Handed("getByStatus",
                      {sanitize(table[c]) : c \in {r \in Rows : table[r].status = st}})
  /\ UNCHANGED <<table, besideStore>>

\* Bot.delete
StoreDelete(b) ==
  /\ table' = [table EXCEPT ![b] = NoRow]
  /\ handed' = Handed("delete", {})
  /\ UNCHANGED besideStore

NextStore ==
  \/ \E b \in StoreIds, pt \in Tokens, at \in Tokens, iv1 \in IVs, iv2 \in IVs :
       StoreCreate(b, pt, at, iv1, iv2)
  \/ \E op \in {"findById", "findByServiceId"}, b \in StoreIds : StoreFind(op, b)
  \/ \E b \in StoreIds : StoreFindWithTokens(b)
  \/ StoreFindByUser
  \/ \E b \in StoreIds, st \in RowStatus \cup {"same"}, at \in Tokens \cup {<<>>}, iv \in IVs :
       StoreUpdate(b, st, at, iv)
  \/ \E op \in {"updateStatus", "updateRuntime"}, b \in StoreIds, st \in RowStatus \cup {"same"} :
       StoreUpdateStatus(op, b, st)
  \/ StoreGetRunning
  \/ \E st \in RowStatus : StoreGetByStatus(st)
  \/ \E b \in StoreIds : StoreDelete(b)

SpecStore == Init /\ [][NextStore]_vars

\* ------------------------------------------------- per-bot webhook limiter
\* the unit of the clock, in ms
UnitMs == 20000

\* windowMs in units of the clock
Window == windowMs \div UnitMs

\* Math.ceil(ms / 1000)
CeilSeconds(ms) == (ms + 999) \div 1000

\* a check that lets one call more through
OverLimit_OffByOne(count, max) == count > max

\* webhookRateLimit's check: data.count >= maxRequests
OverLimit(count, max) == count >= max

\* a window that is kept for another windowMs after its reset time
Expired_Late(t, resetTime) == t > resetTime + Window

\* webhookRateLimit's test of the window: now > data.resetTime
Expired(t, resetTime) == t > resetTime

\* webhookRateLimit(botId, maxRequests) at time t against the entry data of
\* the bot: a first call for the bot, or one after the window expired,
\* starts a window with count 1 and is allowed; a call in the window is
\* denied with retryAfter when the count has reached maxRequests, and is
\* counted and allowed otherwise.  entry: the bot's entry after the call
webhookRateLimit(data, t, max) ==
  IF data = NoWindow \/ Expired(t, data.resetTime)
  THEN [entry |-> [count |-> 1, resetTime |-> t + Window],
        allowed |-> TRUE, retryAfter |-> -1]
  ELSE IF OverLimit(data.count, max)
  THEN [entry |-> data, allowed |-> FALSE,
        retryAfter |-> CeilSeconds((data.resetTime - t) * UnitMs)]
  ELSE [entry |-> [data EXCEPT !.count = @ + 1],
        allowed |-> TRUE, retryAfter |-> -1]

\* a call of webhookRateLimit for bot b; the same call is made against the
\* store that is never purged
RateLimitCall(b) ==
  /\ LET r == webhookRateLimit(requestStore[b], now, maxRequests)
         k == webhookRateLimit(kept[b], now, maxRequests)
     IN
       /\ requestStore' = [requestStore EXCEPT ![b] = r.entry]
       /\ granted' = IF ~r.allowed THEN granted
                     ELSE IF r.entry.count = 1 THEN [granted EXCEPT ![b] = 1]
                     ELSE [granted EXCEPT ![b] = @ + 1]
       /\ verdict' = [bot |-> b, allowed |-> r.allowed, retryAfter |-> r.retryAfter]
       /\ kept' = [kept EXCEPT ![b] = k.entry]
       /\ keptVerdict' = [bot |-> b, allowed |-> k.allowed, retryAfter |-> k.retryAfter]
  /\ UNCHANGED <<now, maxRequests, besideThrottle>>

\* a purge that also takes the entries whose window ends now
Stale_Early(t, resetTime) == t >= resetTime

\* the test of the purge: now > data.resetTime
Stale(t, resetTime) == t > resetTime

\* the setInterval callback: entries whose window expired are deleted
Cleanup ==
  /\ \E b \in BotIds : requestStore[b] # NoWindow /\ Stale(now, requestStore[b].resetTime)
  /\ requestStore' = [b \in BotIds |->
                        IF requestStore[b] # NoWindow /\ Stale(now, requestStore[b].resetTime)
                        THEN NoWindow ELSE requestStore[b]]
  /\ UNCHANGED <<now, maxRequests, granted, verdict, kept, keptVerdict,
                 besideThrottle>>

\* time passes
Tick ==
  /\ now < MaxTime
  /\ now' = now + 1
  /\ UNCHANGED <<requestStore, maxRequests, granted, verdict, kept,
                 keptVerdict, besideThrottle>>

NextThrottle ==
  \/ \E b \in BotIds : RateLimitCall(b)
  \/ Cleanup
  \/ Tick

\* the limiter called with one maxRequests from 0 to MaxCap
InitLimit ==
  /\ InitServer
  /\ InitKeeping
  /\ \E max \in 0..MaxCap : InitThrottle(max)

SpecLimit == InitLimit /\ [][NextThrottle]_vars

\* ------------------------------------------------------- the global limiter
\* RATE_LIMITS: requests per 15 minutes
RATE_LIMITS == [FREE |-> FreeLimit, PRO |-> ProLimit, BUSINESS |-> BusinessLimit]

\* user.plan_type: user 1 is on the free plan, user 2 on the pro plan
plan == [u \in Users |-> IF u = 1 THEN "FREE" ELSE "PRO"]

\* req.user when the global limiter runs, for a request with the valid token
\* of user u (Null: no token): app.use(createRateLimiter()) comes before
\* every router, and req.user is set by authenticate, which the routers run
UserAtLimiter(u) == Null

\* keyGenerator: req.user?.id || req.ip
keyGenerator(reqUser, ip) ==
  IF reqUser # Null THEN [kind |-> "user", id |-> reqUser]
                    ELSE [kind |-> "ip", id |-> ip]

\* max: the limit of req.user's plan, RATE_LIMITS.FREE without req.user
MaxOf(reqUser) ==
  IF reqUser # Null THEN RATE_LIMITS[plan[reqUser]] ELSE RATE_LIMITS.FREE

\* the store after the limiter counted the request under its key
Counted(reqUser, ip) == [hits EXCEPT ![keyGenerator(reqUser, ip)] = @ + 1]

\* the limiter passes the request on unless its key's count went over max
Passes(reqUser, ip) ==
  Counted(reqUser, ip)[keyGenerator(reqUser, ip)] <= MaxOf(reqUser)

\* the requests the limiter counted under the keys ks
RECURSIVE Arrivals(_)
Arrivals(ks) ==
  IF ks = {} THEN 0
  ELSE LET k == CHOOSE x \in ks : TRUE IN hits[k] + Arrivals(ks \ {k})

\* the paths of the API requests: the health check and the bots router
Paths == {"/health", "/api/bots"}

\* a request for path from origin ip with the valid token of user u (Null:
\* without a token): the limiter skips /health; it counts every other request
\* and answers 429 over the limit; then the bots router runs authenticate,
\* which answers 401 without a token
ApiRequest(ip, u, path) ==
  /\ Arrivals(Keys) < MaxForward
  /\ IF path = "/health"
     THEN /\ hits' = hits
          /\ lastApi' = [NoApi EXCEPT !.user = u, !.ip = ip, !.path = path,
                                      !.status = 200]
     ELSE /\ hits' = Counted(UserAtLimiter(u), ip)
          /\ lastApi' = [user |-> u, ip |-> ip, path |-> path,
                         key |-> keyGenerator(UserAtLimiter(u), ip),
                         max |-> MaxOf(UserAtLimiter(u)),
                         status |-> IF ~Passes(UserAtLimiter(u), ip) THEN 429
                                    ELSE IF u = Null THEN 401 ELSE 200]
  /\ UNCHANGED besideLimiter

NextLimiter ==
  \E ip \in Origins, u \in Users \cup {Null}, path \in Paths :
    ApiRequest(ip, u, path)

SpecLimiter == Init /\ [][NextLimiter]_vars

\* ------------------------------------------------ dispatch of the webhook route
\* POST /webhook/telegram/:botId for bot b from origin ip: the request passes
\* the global limiter (it carries no user), then the route calls
\* handleTelegramUpdate for it; no middleware before the route and nothing in
\* it calls webhookRateLimit
Dispatch(b, ip) ==
  /\ Arrivals(Keys) < MaxForward
  /\ hits' = Counted(UserAtLimiter(Null), ip)
  /\ forwarded' = IF Passes(UserAtLimiter(Null), ip)
                  THEN [forwarded EXCEPT ![b] = @ + 1]
                  ELSE forwarded
  /\ UNCHANGED besideDispatch

\* webhook requests arriving within one window (the clock does not move)
NextDispatch == \E b \in BotIds, ip \in Origins : Dispatch(b, ip)

SpecDispatch == Init /\ [][NextDispatch]_vars

TypeOK ==
  /\ provisioner \in Variants
  /\ \A t \in Slots : tasks[t].pc \in BackendPcs \cup {"idle", "done", "c_insert", "del_record", "up_update", "q_find", "q_remote",
                                                  "w_ai", "w_send", "w_count", "w_cmd", "w_sorry"}
  /\ nextId \in 1..(MaxBotIds + 1)
  /\ nextSvc \in 1..(MaxSvc + 1)

\* ------------------------------------------------------------- properties
\* the backend start of task t ends in this step
StartEnds(t) == tasks[t].pc \in StartPcs /\ tasks'[t].pc \notin StartPcs

\* the backend start of task t goes on after this step
StartGoesOn(t) == tasks[t].pc \in StartPcs /\ tasks'[t].pc \in StartPcs

\* bot b exists after this step, with status in S
StatusAfterIn(b, S) == bots'[b] # NoBot /\ bots'[b].status \in S

\* C1: the number of bot records a user owns never exceeds the user's
\* maxBots, whatever createBot and deleteBot requests were made and however
\* they interleaved.
C1_QuotaNeverExceeded == \A u \in Users : countByUser(u) <= maxBots[u]

\* C2: for one bot id at most one provisioning-backend operation (the start
\* triggered by create, start, stop, restart, delete) is in flight at a time.
C2_OneOperationPerBot ==
  \A t1, t2 \in Slots :
    (t1 # t2 /\ InFlight(t1) /\ InFlight(t2)) => tasks[t1].bot # tasks[t2].bot

\* C3: the status of every bot record is one of deploying, running, stopped,
\* error, sleeping.
C3_StatusEnumerated == \A b \in BotIds : Exists(b) => bots[b].status \in BOT_STATUS

\* C3 witness: a backend operation has rewritten the status of a bot that
\* still exists.
C3_Witness ==
  \E t \in Slots :
    /\ tasks[t].pc = "done"
    /\ tasks[t].startOut # "none" \/ tasks[t].stopOut # "none"
    /\ Exists(tasks[t].bot)
    /\ bots[tasks[t].bot].status # DefaultStatus

\* C4: a start request accepted for a bot that is not running leaves the bot
\* in deploying while its backend operation goes on, and in running or in
\* error when the backend operation ends.
C4_StartDeployingThenRunningOrError ==
  [][\A t \in Slots :
       (tasks[t].kind = "start" /\ Exists(tasks[t].bot)) =>
         /\ StartGoesOn(t) => StatusAfterIn(tasks[t].bot, {"deploying"})
         /\ StartEnds(t) => StatusAfterIn(tasks[t].bot, {"running", "error"})]_vars

\* C5: when a backend start or provision attempt fails, the bot record still
\* exists and its status is error.
C5_FailedStartLeavesError ==
  [][\A t \in Slots :
       (StartEnds(t) /\ tasks'[t].startOut = "fail") =>
         StatusAfterIn(tasks[t].bot, {"error"})]_vars

\* C6: when a readiness wait ran out of attempts the bot's status is error
\* at the end of the backend operation, and no backend operation ends with
\* the bot in deploying.
C6_NeverLeftDeploying ==
  [][\A t \in Slots :
       (StartEnds(t) /\ bots'[tasks[t].bot] # NoBot) =>
         /\ tasks'[t].waitOut = "timeout" => bots'[tasks[t].bot].status = "error"
         /\ bots'[tasks[t].bot].status # "deploying"]_vars

\* C7: a readiness wait one of whose polls saw FAILED made no further poll
\* and ended with a failure other than the timeout.
C7_FailedStopsTheWait ==
  \A t \in Slots :
    tasks[t].sawFailed =>
      ~tasks[t].polledAfterFailed /\ tasks[t].waitOut \notin {"success", "timeout"}

\* C8: no backend start creates a service for a bot whose deployment handle
\* is set.
C8_NoCreateWhileHandleStored == \A t \in Slots : ~tasks[t].dup

\* C9: a deleteBot request by the owner of the bot is not answered not-found,
\* and when it has ended the answer is the success answer and the record is
\* gone, whatever the backend stop and the teardown did.
C9_DeleteAlwaysRemoves ==
  [][\A t \in Slots :
       tasks'[t].kind = "delete" =>
         /\ (tasks[t] = Idle /\ Owns(tasks'[t].user, tasks'[t].bot))
              => tasks'[t].resp # 404
         /\ (tasks'[t].pc = "done" /\ tasks'[t].resp # 404)
              => (tasks'[t].resp = 200 /\ bots'[tasks'[t].bot] = NoBot)]_vars

\* C9 witness: a deleteBot request whose backend stop threw has ended with
\* the success answer and the record removed.
C9_Witness ==
  \E t \in Slots :
    /\ tasks[t].kind = "delete" /\ tasks[t].pc = "done"
    /\ tasks[t].stopOut = "fail"
    /\ tasks[t].resp = 200 /\ ~Exists(tasks[t].bot)

\* C10: a deleteBot request that ends when the record of its bot is already
\* gone reports not-found and has issued no deleteService call, and of two
\* deleteBot requests for the same bot id at most one issues a deleteService
\* call.
C10_SecondDeleteNotFound ==
  [][/\ \A t \in Slots :
          (/\ tasks[t].kind = "delete" /\ tasks[t].pc # "done"
           /\ tasks'[t].pc = "done"
           /\ ~Exists(tasks[t].bot))
          => (tasks'[t].resp = 404 /\ ~tasks'[t].tore)
     /\ \A t1, t2 \in Slots :
          (/\ t1 # t2
           /\ tasks'[t1].kind = "delete" /\ tasks'[t2].kind = "delete"
           /\ tasks'[t1].bot = tasks'[t2].bot)
          => ~(tasks'[t1].tore /\ tasks'[t2].tore)]_vars

\* C11: while the provisioning that a createBot request triggered has not
\* ended, the bot it created, if it still exists, has status deploying (from
\* the insertion on).
C11_DeployingUntilProvisioned ==
  \A t \in Slots :
    (tasks[t].kind = "create" /\ tasks[t].pc \in StartPcs /\ Exists(tasks[t].bot))
      => bots[tasks[t].bot].status = "deploying"

\* C12: a stop request by the owner for a bot that is not running is
\* answered with the error 400 at once and changes neither the bots table nor
\* anything on the backend side, and a step that makes a bot's status stopped
\* finds it running.
C12_StopOnlyFromRunning ==
  [][/\ \A t \in Slots, u \in Users, b \in BotIds :
          (BeginStop(t, u, b) /\ Owns(u, b) /\ bots[b].status # "running")
            => /\ tasks'[t].pc = "done" /\ tasks'[t].resp = 400
               /\ UNCHANGED <<bots, services, runningBots>>
     /\ \A b \in BotIds :
          (/\ Exists(b) /\ bots'[b] # NoBot
           /\ bots[b].status # "stopped" /\ bots'[b].status = "stopped")
            => bots[b].status = "running"]_vars

\* C13: a start request by the owner for a bot whose status is running is
\* answered with the error 400 at once, enters no backend operation and
\* changes neither the bots table nor anything on the backend side.
C13_StartRejectedWhenRunning ==
  [][\A t \in Slots, u \in Users, b \in BotIds :
       (BeginStart(t, u, b) /\ Owns(u, b) /\ bots[b].status = "running")
         => /\ tasks'[t].pc = "done" /\ tasks'[t].resp = 400
            /\ UNCHANGED <<bots, services, runningBots>>]_vars

\* C13 witness: a start request for a running bot has been answered 400.
C13_Witness ==
  \E t \in Slots :
    /\ tasks[t].kind = "start" /\ tasks[t].pc = "done" /\ tasks[t].resp = 400
    /\ Exists(tasks[t].bot) /\ bots[tasks[t].bot].status = "running"

\* C14: a createBot request that finds the user's bot count at or above
\* maxBots is rejected at once, with the quota error 403 when its body is
\* valid, and inserts no record, hands out no id and changes nothing on the
\* backend side: the user's bot count is as before.
C14_QuotaRejectionHasNoEffect ==
  [][\A t \in Slots, u \in Creators, valid \in BOOLEAN :
       (BeginCreate(t, u, valid) /\ countByUser(u) >= maxBots[u])
         => /\ tasks'[t].pc = "done"
            /\ tasks'[t].resp = (IF valid THEN 403 ELSE 400)
            /\ UNCHANGED <<bots, nextId, services, nextSvc, runningBots>>]_vars

\* C14 witness: a createBot request of a user at the ceiling has been
\* answered with the quota error.
C14_Witness ==
  \E t \in Slots :
    /\ tasks[t].kind = "create" /\ tasks[t].pc = "done" /\ tasks[t].resp = 403
    /\ countByUser(tasks[t].user) >= maxBots[tasks[t].user]

\* C15: a status query (getBotStatus, getBot, an entry of listBots) whose
\* call to the orchestrator found the API unreachable is answered with
\* success, and the answer carries the status of the row that was read and
\* the running flag that this status gives.
C15_StatusFallsBackToRecord ==
  \A t \in Slots :
    (/\ tasks[t].kind \in QueryKinds /\ tasks[t].pc = "done"
     /\ tasks[t].q.remote = "unreachable")
    => /\ tasks[t].resp = 200
       /\ tasks[t].q.status = tasks[t].q.seen
       /\ tasks[t].q.running = (tasks[t].q.seen = "running")

\* C15 witness: a query for a running bot with a handle has been answered
\* although the orchestrator API was unreachable.
C15_Witness ==
  \E t \in Slots :
    /\ tasks[t].kind \in QueryKinds /\ tasks[t].pc = "done"
    /\ tasks[t].q.remote = "unreachable"
    /\ tasks[t].q.seen = "running" /\ tasks[t].q.running

\* C16: a createBot request that passed the validation and the limit check
\* inserts the record and answers 201, and no later step of the provisioning
\* it triggered changes that answer or removes the record, however the
\* provisioning ends.
C16_CreationSurvivesProvisioning ==
  [][\A t \in Slots :
       (tasks'[t].kind = "create" /\ tasks'[t] # tasks[t]) =>
         /\ tasks[t].pc = "c_insert"
              => (tasks'[t].resp = 201 /\ bots'[tasks'[t].bot] # NoBot)
         /\ tasks[t].resp = 201
              => /\ tasks'[t].resp = 201
                 /\ Exists(tasks[t].bot) => bots'[tasks[t].bot] # NoBot]_vars

\* C16 witness: the provisioning triggered by a creation has failed, the
\* creation was answered 201 and the record is in the store.
C16_Witness ==
  \E t \in Slots :
    /\ tasks[t].kind = "create" /\ tasks[t].pc = "done"
    /\ tasks[t].startOut = "fail" /\ tasks[t].resp = 201
    /\ Exists(tasks[t].bot)

\* C17: every response the inbound webhook route sends is HTTP 200, whether
\* the runtime handler returned normally, threw, or found no running bot for
\* the id; an error of the handler is logged by the route and never reaches
\* the messaging platform.
C17_WebhookAlwaysAnswers200 ==
  \A t \in Slots :
    tasks[t].kind = "webhook"
      => /\ tasks[t].resp \in {0, 200}
         /\ (tasks[t].pc = "done") = (tasks[t].resp = 200)
         /\ tasks[t].w.threw => tasks[t].w.logged

\* a webhook request whose handler threw has been answered
C17_Witness ==
  \E t \in Slots :
    /\ tasks[t].kind = "webhook" /\ tasks[t].pc = "done"
    /\ tasks[t].w.threw /\ tasks[t].w.found /\ tasks[t].resp = 200

\* C18: sending the acknowledgement of an inbound webhook request does not
\* wait on a downstream call: while a call to the AI provider or to the
\* messaging platform made for the request is pending (and so also when it
\* never completes), the request has already been acknowledged.
C18_AckDoesNotWaitDownstream ==
  \A t \in Slots :
    (tasks[t].kind = "webhook" /\ tasks[t].pc \in DownstreamPcs)
      => tasks[t].resp = 200

\* C19: for every bot and chat, after any number of handled messages, the
\* stored conversation history and the history sent in each chat-completion
\* call hold at most TurnCap (10) turns.
C19_HistoryAtMostTenTurns ==
  /\ \A b \in BotIds : conversations[b] <= TurnCap
  /\ \A t \in Slots : tasks[t].w.sent <= TurnCap

\* C20: with the no-op/manual backend active, no operation ever leaves a bot
\* with status running, and every status answer built from a bot's record
\* (getBotStatus, getBot, listBots) carries the manual-deployment message and
\* running = false.
C20_MockStatusTaggedManual ==
  provisioner = "mock" =>
    /\ \A b \in BotIds : bots[b].status # "running"
    /\ \A t \in Slots :
         (/\ tasks[t].kind \in QueryKinds /\ tasks[t].pc = "done"
          /\ tasks[t].q.seen \notin {"none", "null"})
         => /\ tasks[t].resp = 200
            /\ tasks[t].q.message = "manual"
            /\ tasks[t].q.running = FALSE

\* the manual backend has answered a status query for a bot it started
C20_Witness ==
  /\ provisioner = "mock"
  /\ \E t \in Slots :
       /\ tasks[t].kind \in QueryKinds /\ tasks[t].pc = "done"
       /\ tasks[t].q.seen = "stopped" /\ tasks[t].q.message = "manual"

\* C23 as stated: for every plaintext P, decrypt(encrypt(P)) returns P under
\* the configured key.
C23_RoundTripEveryString ==
  (vault.pc = "opened" /\ vault.given = vault.blob)
    => (vault.out.ok /\ vault.out.text = vault.text)

\* C23 amended: for every plaintext P that is a well-formed string (one
\* without an unpaired surrogate), decrypt(encrypt(P)) returns P under the
\* configured key.
C23_RoundTrip ==
  (vault.pc = "opened" /\ vault.given = vault.blob /\ WellFormed(vault.text))
    => (vault.out.ok /\ vault.out.text = vault.text)

\* a well-formed plaintext of two characters, one of them of two bytes, has
\* come back from decrypt
C23_Witness ==
  /\ vault.pc = "opened" /\ vault.given = vault.blob
  /\ vault.text = <<"a", "R">> /\ vault.iv = 1
  /\ vault.out.ok /\ vault.out.text = vault.text

\* C24: decrypting a blob that differs from the blob encrypt produced (in a
\* character, or by coming from another key) fails with an error; decrypt
\* returns no plaintext for it.
C24_TamperedBlobFails ==
  (vault.pc = "opened" /\ vault.given # vault.blob) => ~vault.out.ok

\* the fields of a returned bot that hold a credential, encrypted or not
SecretFields == EncryptedColumns \cup TokenFields

\* C21: every store operation other than the privileged findByIdWithTokens
\* returns the sanitized projection: no bot it hands to its caller has an
\* encrypted credential field or a decrypted token.
C21_OnlySanitizedLeavesStore ==
  handed.op # "findByIdWithTokens"
    => \A r \in handed.rows : (DOMAIN r) \cap SecretFields = {}

\* C22: in every reachable state both credential columns of every row hold a
\* blob the vault decrypts, never the token as it was given: create and
\* update encrypt before the write.
C22_ColumnsHoldCiphertext ==
  \A b \in Rows :
    /\ decrypt(table[b].platform_token_encrypted).ok
    /\ decrypt(table[b].ai_token_encrypted).ok
    /\ decrypt(table[b].platform_token_encrypted).text \in Tokens
    /\ decrypt(table[b].ai_token_encrypted).text \in Tokens
    /\ \A t \in Tokens, c \in EncryptedColumns : table[b][c] # Seal_Plain(t, 0)

\* an update has replaced the AI credential of a row by that of another token
C22_Witness ==
  /\ handed.op = "update"
  /\ \E b \in Rows :
       /\ decrypt(table[b].platform_token_encrypted).text = <<"a">>
       /\ decrypt(table[b].ai_token_encrypted).text = <<"R">>

\* the request in slot t is answered in this step
Answered(t) == tasks[t].pc # "done" /\ tasks'[t].pc = "done"

\* C25: updateBot runs a backend stop and then a backend start, only after
\* the record update, exactly when the request changes the AI credential,
\* provider or model and the status it read was running; when both succeed
\* the bot is running again.
C25_UpdateRestartsRunningBot ==
  [][\A t \in Slots :
       tasks'[t].kind = "update" =>
         /\ tasks'[t].pc \in StopPcs \cup StartPcs => tasks'[t].needsRestart
         /\ tasks'[t].pc \in StartPcs => tasks'[t].stopOut = "ok"
         /\ (Answered(t) /\ tasks'[t].resp = 200)
              => (tasks'[t].needsRestart = (tasks'[t].stopOut # "none"))
         /\ (Answered(t) /\ tasks'[t].stopOut = "ok" /\ tasks'[t].startOut = "ok")
              => StatusAfterIn(tasks[t].bot, {"running"})]_vars

\* the message of updateBot's answer: 'Bot updated and restarted with new AI
\* config' when needsRestart, else 'Bot updated'
UpdateMessage(tk) == IF tk.needsRestart THEN "restarted" ELSE "updated"

\* C26: when the stop-then-start cycle of updateBot fails, the answer does
\* not say that the bot was restarted.
C26_FailedRestartIsReported ==
  \A t \in Slots :
    (/\ tasks[t].kind = "update" /\ tasks[t].pc = "done" /\ tasks[t].resp = 200
     /\ UpdateMessage(tasks[t]) = "restarted")
    => (tasks[t].stopOut = "ok" /\ tasks[t].startOut = "ok")

\* the window of bot b is open: the bot has an entry whose reset time has
\* not passed
InWindow(b) == requestStore[b] # NoWindow /\ now <= requestStore[b].resetTime

\* in this step the limiter keeps to maxRequests for every bot: no more than
\* maxRequests calls are allowed in the bot's window, a call in the window
\* after that is denied with a retryAfter, and a call for one bot changes
\* nothing that is kept for another
LimitKept ==
  \A b \in BotIds :
    /\ granted'[b] <= maxRequests
    /\ (RateLimitCall(b) /\ InWindow(b) /\ granted[b] >= maxRequests)
         => (~verdict'.allowed /\ verdict'.retryAfter >= 0)
    /\ RateLimitCall(b)
         => \A c \in BotIds \ {b} :
              requestStore'[c] = requestStore[c] /\ granted'[c] = granted[c]

\* C27 as stated: for every bot id and every maxRequests, webhookRateLimit
\* allows at most maxRequests calls for the bot within one window and denies
\* every further call in the window with a retry-after; the count is per bot.
C27_LimitKeptForEveryMax == [][LimitKept]_vars

\* C27 amended: the same for every maxRequests of at least 1 (the call that
\* opens a window is allowed without a look at maxRequests).
C27_LimitKeptForPositiveMax == [][maxRequests >= 1 => LimitKept]_vars

\* with maxRequests 2, bot 1 has had two calls allowed and the third denied
\* with a retryAfter, while bot 2 has had one call allowed
C27_Witness ==
  /\ maxRequests = 2 /\ granted[1] = 2 /\ granted[2] = 1
  /\ verdict.bot = 1 /\ ~verdict.allowed /\ verdict.retryAfter > 0

\* C29: a webhookRateLimit call for a bot whose window has expired is allowed
\* and starts a new window with count 1, whatever the old count was.
C29_ExpiredWindowStartsAnew ==
  [][\A b \in BotIds :
       (/\ RateLimitCall(b)
        /\ requestStore[b] # NoWindow /\ now > requestStore[b].resetTime)
       => /\ verdict'.allowed /\ verdict'.bot = b
          /\ requestStore'[b] = [count |-> 1, resetTime |-> now + Window]]_vars

\* a bot that had used up its window has a new window, opened after the
\* reset time of the old one
C29_Witness ==
  \E b \in BotIds :
    /\ maxRequests = 1 /\ verdict.bot = b /\ verdict.allowed
    /\ requestStore[b] = [count |-> 1, resetTime |-> now + Window]
    /\ now > Window

\* C28: within one window no more than the cap (maxRequests, 100 by default)
\* of inbound webhook requests for a bot are given to the bot's runtime
\* handler.
C28_CapEnforcedOnDispatch ==
  \A b \in BotIds : forwarded[b] <= maxRequests

\* C30: every request of an authenticated user is counted by the global
\* limiter under the user's id with the ceiling of the user's plan; only
\* requests without a user are counted under their origin with the free
\* ceiling.
C30_KeyedByUserWithPlanCeiling ==
  lastApi.path = "/api/bots" =>
    IF lastApi.user # Null
    THEN /\ lastApi.key = [kind |-> "user", id |-> lastApi.user]
         /\ lastApi.max = RATE_LIMITS[plan[lastApi.user]]
    ELSE /\ lastApi.key = [kind |-> "ip", id |-> lastApi.ip]
         /\ lastApi.max = RATE_LIMITS.FREE

\* the handlers of the routes /api/bots/:id and /api/bots/:id/...
BotEndpoints ==
  {"get", "update", "delete", "start", "stop", "restart", "status", "logs"}

\* C31: a request to a bot endpoint (get, update, delete, start, stop,
\* restart, status, logs) for a bot that another user owns, or for an id
\* without a bot, is answered at once with the same 404, changes no state
\* and makes no backend call: the answer is the same whether or not the
\* other user's bot exists.
C31_ForeignBotLooksAbsent ==
  [][\A t \in Slots :
       (/\ tasks[t] = Idle /\ tasks'[t].kind \in BotEndpoints
        /\ \/ bots[tasks'[t].bot] = NoBot
           \/ bots[tasks'[t].bot].user_id # tasks'[t].user)
       => /\ tasks'[t] = [Idle EXCEPT !.kind = tasks'[t].kind,
                                      !.user = tasks'[t].user,
                                      !.bot = tasks'[t].bot,
                                      !.pc = "done", !.resp = 404]
          /\ UNCHANGED <<bots, nextId, services, nextSvc, runningBots,
                         conversations>>]_vars

\* a request of user 2 for a bot of user 1 has been answered 404
C31_Witness ==
  \E t \in Slots :
    /\ tasks[t].kind \in BotEndpoints /\ tasks[t].pc = "done"
    /\ tasks[t].resp = 404
    /\ bots[tasks[t].bot] # NoBot
    /\ bots[tasks[t].bot].user_id # tasks[t].user

\* C32: a backend stop of a remote-orchestrator variant (GraphQL or REST) that
\* ends with success for a bot with a deployment handle has set the status to
\* stopped and deleted the webhook registration, and has left the remote
\* service and the stored handle as they were, with no deleteService call.
C32_StopUnhooksAndKeepsService ==
  [][\A t \in Slots :
       (/\ provisioner \in {"graphql", "rest"}
        /\ tasks[t].pc \in StopPcs /\ tasks'[t].pc \notin StopPcs
        /\ tasks'[t].stopOut = "ok"
        /\ Exists(tasks[t].bot)
        /\ bots[tasks[t].bot].railway_service_id # Null)
       => /\ bots'[tasks[t].bot].status = "stopped"
          /\ tasks'[t].hook = "deleted"
          /\ ~tasks'[t].tore
          /\ services' = services
          /\ bots'[tasks[t].bot].railway_service_id
               = bots[tasks[t].bot].railway_service_id]_vars

\* the answer to the poll number j (counted from 1) of the stream ps
Answer(ps, j) == IF j <= Len(ps.head) THEN ps.head[j] ELSE ps.rest

\* C34: waitForDeployment ends after at most maxAttempts status polls, by
\* returning or by throwing, whatever the polls answer (errors and
\* non-terminal statuses included), and it returns an endpoint only if one of
\* its polls was answered SUCCESS.
C34_WaitIsBounded ==
  waited # NoWait =>
    /\ waited.out \in {"success", "timeout"}
    /\ waited.polls <= waited.maxAttempts
    /\ waited.out = "success"
         => \E j \in 1..waited.polls : Answer(waited.ps, j) = "SUCCESS"

\* a wait whose every poll threw an error has ended with the timeout after
\* MaxAttempts polls
C34_Witness ==
  /\ waited.out = "timeout" /\ waited.polls = MaxAttempts
  /\ waited.maxAttempts = MaxAttempts
  /\ waited.ps = [head |-> <<>>, rest |-> "ERROR"]

\* C35: when provisionBot of a remote-orchestrator variant marks the bot
\* running, the webhook registration of that provision has succeeded; a
\* provision whose registration failed does not end in status running.
C35_RunningOnlyWithWebhook ==
  [][\A t \in Slots :
       (/\ provisioner \in {"graphql", "rest"}
        /\ tasks[t].pc = "p_upd" /\ tasks'[t].pc # "p_upd"
        /\ bots'[tasks[t].bot] # NoBot
        /\ bots'[tasks[t].bot].status = "running")
       => tasks[t].hook = "set"]_vars

\* C36: provisionBot triggers the deployment only after every variable of
\* the environment map has been set on the service; when the setting of a
\* variable fails, no deployment is triggered and the provision fails.
C36_DeployOnlyWithAllVariables ==
  [][\A t \in Slots :
       /\ (tasks[t].pc = "p_deploy" /\ tasks'[t].pc \in {"p_wait", "p_upd"})
            => tasks[t].varsOk
       /\ (tasks[t].pc = "p_create" /\ ~tasks'[t].varsOk)
            => tasks'[t].pc = "p_err"]_vars

\* C37: once no operation is in progress, every service that exists on the
\* remote orchestrator is the deployment handle of an existing bot record:
\* a service that was created is recorded on a bot or has been deleted.
C37_NoOrphanService ==
  (\A t \in Slots : tasks[t].pc \in {"idle", "done"})
    => \A s \in services : findByServiceId(s) # {}

\* C38: a restart request for bot B that reaches the restart operation of a
\* remote-orchestrator variant hands it B's stored deployment handle: the
\* service it redeploys is B's railway_service_id, a service id, and never
\* another identifier.
C38_RestartTargetsStoredHandle ==
  [][\A t \in Slots :
       (/\ provisioner \in {"graphql", "rest"}
        /\ tasks[t] = Idle /\ tasks'[t].kind = "restart"
        /\ tasks'[t].pc = "r_deploy")
       => /\ tasks'[t].svc \in SvcIds
          /\ tasks'[t].svc = bots[tasks'[t].bot].railway_service_id]_vars

\* C39: with the in-process runner, a start that fails leaves the bot out of
\* the live-bot registry and not running, a start that succeeds has
\* registered the webhook, and a stop that completes leaves the bot out of
\* the registry with status stopped.
C39_RegistryFollowsWebhook ==
  [][\A t \in Slots :
       LET b == tasks[t].bot IN
         provisioner = "runner" =>
           /\ (tasks[t].pc \in StartPcs /\ tasks'[t].pc \notin StartPcs)
                => IF tasks'[t].startOut = "ok"
                   THEN tasks'[t].hook = "set"
                   ELSE /\ b \notin runningBots'
                        /\ bots'[b] # NoBot => bots'[b].status # "running"
           /\ (tasks[t].pc \in StopPcs /\ tasks'[t].pc \notin StopPcs
               /\ tasks'[t].stopOut = "ok")
                => /\ b \notin runningBots'
                   /\ bots'[b] # NoBot => bots'[b].status = "stopped"]_vars

\* C40: the purge is not observable: in every sequence of webhookRateLimit
\* calls and purge runs, each call returns what it returns in the same
\* sequence of calls without the purge runs (allowed or denied, and the
\* retryAfter), and the purge removes only entries whose window has expired.
C40_PurgeIsUnobservable ==
  /\ verdict = keptVerdict
  /\ \A b \in BotIds :
       \/ requestStore[b] = kept[b]
       \/ requestStore[b] = NoWindow /\ now > kept[b].resetTime

\* a purge has removed the entry of a bot whose window had used up its
\* limit, and the bot's next call has been answered
C40_Witness ==
  \E b \in BotIds :
    /\ kept[b] # NoWindow /\ requestStore[b] = kept[b]
    /\ granted[b] = 1 /\ verdict.bot = b /\ verdict.allowed
    /\ maxRequests = 1 /\ now > Window
    /\ \E c \in BotIds \ {b} : requestStore[c] = NoWindow /\ kept[c] # NoWindow

\* C33: the GraphQL and the REST flavor of the remote orchestrator backend
\* are equivalent: a provisionBot that succeeds leaves the same status with
\* the deployment handle and has issued the same kinds of external effects
\* under both.  The GraphQL flavor writes 'running' after it has waited for
\* readiness and called the webhook registration; every successful
\* provisionBot of either remote flavor does so for a bot that is still
\* in the table.
C33_FlavorsAgree ==
  [][\A t \in Slots :
       (/\ provisioner \in {"graphql", "rest"}
        /\ tasks[t].pc = "p_upd" /\ tasks'[t].startOut = "ok"
        /\ Exists(tasks[t].bot))
       => /\ bots'[tasks[t].bot].status = "running"
          /\ bots'[tasks[t].bot].railway_service_id = tasks[t].svc
          /\ tasks[t].waitOut = "success"
          /\ tasks[t].hook \in {"set", "not_set"}]_vars

====
